---- MODULE Spec2Model ----
(***************************************************************************)
(* Donation vault: the Anchor (Solana) program programs/donation and its   *)
(* two ports, languages/ink and languages/rust-near.  One deployment runs  *)
(* one of the three contracts; `variant` says which.                       *)
(*                                                                         *)
(* Amounts.  TLC's integers are 32 bit wide, so amounts are counted in a   *)
(* coarser unit than the chain's: 10^6 lamports (0.001 SOL) for the Anchor *)
(* program, 10^7 Planck (.001 DOT) for ink and 10^21 yoctoNEAR (.001 NEAR) *)
(* for NEAR.  Every threshold of the source is a whole number of these     *)
(* units.  The unsigned integer types (u64, u128, u32) are narrowed to     *)
(* WORD_BITS bits; their arithmetic (checked, saturating, plain) is        *)
(* modelled at that width.                                                 *)
(***************************************************************************)
EXTENDS Integers, Sequences, FiniteSets, TLC

VARIABLES
    variant,          \* which contract is deployed: "anchor", "ink", "near"
    overflow_checks,  \* build profile: plain + - panic on overflow (TRUE) or wrap (FALSE)
    lamports,         \* the host ledger: balance of every account
    vault_state_init, \* anchor: the vault_state PDA has been created by `init`
    vault_state,      \* anchor: struct VaultState
    donor_info_init,  \* anchor: donors whose donor_info PDA exists
    donor_info,       \* anchor: struct DonorInfo of every donor
    contract,         \* ink / near: struct DonationContract
    made,             \* number of calls accepted so far
    last,             \* the call processed last: operation, caller, arguments, result
    before,           \* accounts and storage as the call processed last found them
    effects,          \* what the last call did, in order: transfers, writes, events
    reported,         \* anchor: the milestone_amount of every MilestoneReachedEvent logged so far
    moved,            \* anchor: lamports moved so far by successful calls: donated and
                      \* refunded per donor, withdrawn to an admin; all contracts:
                      \* the identities that have donated successfully
    applied           \* a helper function applied on its own: name, arguments, value

vars == <<variant, overflow_checks, lamports, vault_state_init, vault_state,
          donor_info_init, donor_info, contract, made, last, before, effects,
          reported, moved, applied>>

---------------------------------------------------------------------------
(* Bounds of the model *)

WORD_BITS == 17          \* width the unsigned integer types are narrowed to
MaxCalls == 4            \* no call is submitted once so many calls were accepted
MaxTime == 1             \* timestamps the host clock may report: 1..MaxTime
RentExemptMinimum == 2   \* Rent::minimum_balance of the vault account (host-defined)
Margin == 1              \* helper arguments lie within Margin of a threshold

U64_MAX == 2 ^ WORD_BITS - 1
U128_MAX == U64_MAX
U32_MAX == U64_MAX

---------------------------------------------------------------------------
(* Program constants of programs/donation, in units of 10^6 lamports *)

LAMPORTS_PER_SOL == 1000
DEFAULT_MIN_DONATION == 1
DEFAULT_MAX_DONATION == 100 * LAMPORTS_PER_SOL
TIER_BRONZE == 1
TIER_SILVER == LAMPORTS_PER_SOL \div 10
TIER_GOLD == LAMPORTS_PER_SOL
TIER_PLATINUM == 10 * LAMPORTS_PER_SOL
MILESTONE_1_SOL == LAMPORTS_PER_SOL
MILESTONE_10_SOL == 10 * LAMPORTS_PER_SOL
MILESTONE_100_SOL == 100 * LAMPORTS_PER_SOL
MILESTONE_1000_SOL == 1000 * LAMPORTS_PER_SOL

\* anchor_lang::system_program::ID and Pubkey::default() are the same 32 zero bytes
SYSTEM_PROGRAM_ID == "11111111111111111111111111111111"
PUBKEY_DEFAULT == SYSTEM_PROGRAM_ID
\* ink: AccountId::from([0x0; 32])
ZERO_ACCOUNT_ID == "0x0000000000000000000000000000000000000000000000000000000000000000"
SYSTEM_ACCOUNT == "system"       \* NEAR: the AccountId the protocol reserves for itself

---------------------------------------------------------------------------
(* Identities and inputs *)

Keys == {"k1", "k2"}             \* identities that can sign a call
VAULT == "vault"                 \* the vault PDA / the contract's own account
Accounts == Keys \cup {VAULT}
Timestamps == 1 .. MaxTime

\* the vault holds its rent-exempt minimum, k1 can afford the largest
\* donation, k2 a small one
InitialLamports ==
    [a \in Accounts |->
        IF a = VAULT THEN RentExemptMinimum
        ELSE IF a = "k1" THEN DEFAULT_MAX_DONATION + 2 * RentExemptMinimum
        ELSE TIER_GOLD + 1]

None == <<>>
Some(x) == <<x>>

---------------------------------------------------------------------------
(* Integer arithmetic of the source at the modelled width *)

\* mutant: the sum is stored modulo the width instead of being refused
checked_add_wrapping(a, b) == Some((a + b) % (U64_MAX + 1))
checked_add(a, b) == IF a + b > U64_MAX THEN None ELSE Some(a + b)
checked_sub(a, b) == IF a < b THEN None ELSE Some(a - b)
saturating_add(a, b) == IF a + b > U64_MAX THEN U64_MAX ELSE a + b
wrapping_add(a, b) == (a + b) % (U64_MAX + 1)
wrapping_sub(a, b) == (a - b + U64_MAX + 1) % (U64_MAX + 1)
\* a + b and a - b written with the plain operators: whether an overflow
\* panics or wraps is decided by the build profile
add_overflows(a, b) == a + b > U64_MAX
sub_overflows(a, b) == a < b

---------------------------------------------------------------------------
(* programs/donation: pure helpers *)

\* mutant: the Gold and Silver arms are exchanged
calculate_tier_swapped(total_donated) ==
    IF total_donated >= TIER_PLATINUM THEN "Platinum"
    ELSE IF total_donated >= TIER_GOLD THEN "Silver"
    ELSE IF total_donated >= TIER_SILVER THEN "Gold"
    ELSE "Bronze"

calculate_tier(total_donated) ==
    IF total_donated >= TIER_PLATINUM THEN "Platinum"
    ELSE IF total_donated >= TIER_GOLD THEN "Gold"
    ELSE IF total_donated >= TIER_SILVER THEN "Silver"
    ELSE "Bronze"

MILESTONES == <<MILESTONE_1_SOL, MILESTONE_10_SOL, MILESTONE_100_SOL, MILESTONE_1000_SOL>>

RECURSIVE milestone_loop(_, _, _)
milestone_loop(i, previous_total, new_total) ==
    IF i > Len(MILESTONES) THEN None
    ELSE IF previous_total < MILESTONES[i] /\ new_total >= MILESTONES[i]
         THEN Some(MILESTONES[i])
         ELSE milestone_loop(i + 1, previous_total, new_total)

\* mutant: a milestone counts as reached only when the new total exceeds it
RECURSIVE milestone_loop_exclusive(_, _, _)
milestone_loop_exclusive(i, previous_total, new_total) ==
    IF i > Len(MILESTONES) THEN None
    ELSE IF previous_total < MILESTONES[i] /\ new_total > MILESTONES[i]
         THEN Some(MILESTONES[i])
         ELSE milestone_loop_exclusive(i + 1, previous_total, new_total)

check_milestone_reached_exclusive(previous_total, new_total) ==
    milestone_loop_exclusive(1, previous_total, new_total)

\* mutant: a milestone is reported whenever the new total has reached it
check_milestone_reached_again(previous_total, new_total) ==
    LET reached == {i \in DOMAIN MILESTONES : new_total >= MILESTONES[i]}
    IN  IF reached = {} THEN None
        ELSE Some(MILESTONES[CHOOSE i \in reached : \A j \in reached : i <= j])

\* mutant: the array is searched from its end, the highest milestone crossed wins
check_milestone_reached_from_end(previous_total, new_total) ==
    LET crossed == {i \in DOMAIN MILESTONES :
                      previous_total < MILESTONES[i] /\ new_total >= MILESTONES[i]}
    IN  IF crossed = {} THEN None
        ELSE Some(MILESTONES[CHOOSE i \in crossed : \A j \in crossed : j <= i])

check_milestone_reached(previous_total, new_total) ==
    milestone_loop(1, previous_total, new_total)

---------------------------------------------------------------------------
(* programs/donation: the accounts an instruction works on, and its outcome *)

\* everything a call can change: ledger, accounts, contract storage
Storage ==
    [lamports |-> lamports, vault_state_init |-> vault_state_init,
     vault_state |-> vault_state, donor_info_init |-> donor_info_init,
     donor_info |-> donor_info, contract |-> contract]

Accts ==
    [vault_state_init |-> vault_state_init,
     vault_state      |-> vault_state,
     donor_info_init  |-> donor_info_init,
     donor_info       |-> donor_info,
     lamports         |-> lamports]

\* the handler returned `result` with the accounts in state s
Ret(result, s, done) == [result |-> result, s |-> s, effects |-> done]

Transfer(from, to, amount) ==
    [effect |-> "transfer", from |-> from, to |-> to, amount |-> amount]
Write(account) == [effect |-> "write", account |-> account]

\* system_program::transfer, the caller has checked that `from` holds `amount`
system_transfer(s, from, to, amount) ==
    [s EXCEPT !.lamports = [@ EXCEPT ![from] = @ - amount, ![to] = @ + amount]]

\* **from.try_borrow_mut_lamports()? -= amount; **to.try_borrow_mut_lamports()? += amount
\* The vault is a SystemAccount, and it is the host that decides whether the
\* program may debit it: each handler that does takes the host's decision as
\* debit_ok, and fails with ExternalAccountLamportSpend when the host refuses.
lamports_panic(s, from, to, amount) ==
    overflow_checks /\ (sub_overflows(s.lamports[from], amount)
                        \/ add_overflows(s.lamports[to], amount))
move_lamports(s, from, to, amount) ==
    [s EXCEPT !.lamports = [@ EXCEPT ![from] = wrapping_sub(@, amount),
                                     ![to] = wrapping_add(@, amount)]]

RECURSIVE SumOver(_, _)
SumOver(f, S) ==
    IF S = {} THEN 0
    ELSE LET a == CHOOSE x \in S : TRUE IN f[a] + SumOver(f, S \ {a})
total_lamports(l) == SumOver(l, Accounts)

ZeroVaultState ==
    [admin |-> PUBKEY_DEFAULT, total_donated |-> 0, donation_count |-> 0,
     is_paused |-> FALSE, min_donation_amount |-> 0, max_donation_amount |-> 0,
     total_withdrawn |-> 0, unique_donors |-> 0]

\* a donor_info account as `init_if_needed` creates it: zeroed, DonorTier's first variant
ZeroDonorInfo ==
    [total_donated |-> 0, donation_count |-> 0, last_donation_timestamp |-> 0,
     tier |-> "Bronze"]

---------------------------------------------------------------------------
(* programs/donation: instruction handlers *)

initialize(s, admin) ==
    Ret("Ok",
        [s EXCEPT !.vault_state =
            [admin |-> admin, total_donated |-> 0, donation_count |-> 0,
             is_paused |-> FALSE,
             min_donation_amount |-> DEFAULT_MIN_DONATION,
             max_donation_amount |-> DEFAULT_MAX_DONATION,
             total_withdrawn |-> 0, unique_donors |-> 0]],
        <<Write("vault_state")>>)

\* mutant: a first donation that reaches a tier announces a tier upgrade
donate_upgrading_newcomers(s, donor, amount, now) ==
    LET vs == s.vault_state
        is_new_donor == s.donor_info[donor].donation_count = 0
        total == checked_add(vs.total_donated, amount)
        unique == IF is_new_donor THEN vs.unique_donors + 1 ELSE vs.unique_donors
        old_tier == s.donor_info[donor].tier
        dtotal == checked_add(s.donor_info[donor].total_donated, amount)
        new_tier == IF dtotal = None THEN old_tier ELSE calculate_tier(dtotal[1])
        milestone == IF total = None THEN None
                     ELSE check_milestone_reached(vs.total_donated, total[1])
        s1 == system_transfer(s, donor, VAULT, amount)
        s8 == [s1 EXCEPT !.vault_state.total_donated = total[1],
                         !.vault_state.donation_count = vs.donation_count + 1,
                         !.vault_state.unique_donors = unique,
                         !.donor_info[donor].total_donated = dtotal[1],
                         !.donor_info[donor].donation_count = @ + 1,
                         !.donor_info[donor].last_donation_timestamp = now,
                         !.donor_info[donor].tier = new_tier]
        e8 == <<Transfer(donor, VAULT, amount), Write("vault_state")>> \o
              (IF milestone # None
               THEN <<[effect |-> "emit", event |-> "MilestoneReachedEvent",
                       milestone_amount |-> milestone[1], total_donated |-> total[1],
                       triggering_donor |-> donor, timestamp |-> now]>>
               ELSE <<>>) \o
              <<Write("donor_info")>> \o
              (IF old_tier # new_tier
               THEN <<[effect |-> "emit", event |-> "TierUpgradeEvent", donor |-> donor,
                       old_tier |-> old_tier, new_tier |-> new_tier,
                       total_donated |-> dtotal[1], timestamp |-> now]>>
               ELSE <<>>) \o
              <<[effect |-> "emit", event |-> "DonationEvent", donor |-> donor,
                 amount |-> amount, total_donated |-> total[1], donor_tier |-> new_tier]>>
    IN  IF vs.is_paused THEN Ret("ContractPaused", s, <<>>)
        ELSE IF ~(amount >= vs.min_donation_amount) THEN Ret("DonationTooSmall", s, <<>>)
        ELSE IF ~(amount <= vs.max_donation_amount) THEN Ret("DonationTooLarge", s, <<>>)
        ELSE IF s.lamports[donor] < amount THEN Ret("ResultWithNegativeLamports", s, <<>>)
        ELSE IF total = None \/ dtotal = None THEN Ret("Overflow", s1, <<>>)
        ELSE Ret("Ok", s8, e8)

donate(s, donor, amount, now) ==
    LET vs == s.vault_state
        is_new_donor == s.donor_info[donor].donation_count = 0
        previous_total == vs.total_donated
        total == checked_add(vs.total_donated, amount)
        count == checked_add(vs.donation_count, 1)
        unique == IF is_new_donor THEN checked_add(vs.unique_donors, 1)
                  ELSE Some(vs.unique_donors)
        s1 == system_transfer(s, donor, VAULT, amount)
        e1 == <<Transfer(donor, VAULT, amount)>>
        s2 == [s1 EXCEPT !.vault_state.total_donated = total[1]]
        s3 == [s2 EXCEPT !.vault_state.donation_count = count[1]]
        s4 == [s3 EXCEPT !.vault_state.unique_donors = unique[1]]
        new_total == s4.vault_state.total_donated
        milestone == check_milestone_reached(previous_total, new_total)
        e4 == e1 \o <<Write("vault_state")>> \o
              (IF milestone # None
               THEN <<[effect |-> "emit", event |-> "MilestoneReachedEvent",
                       milestone_amount |-> milestone[1], total_donated |-> new_total,
                       triggering_donor |-> donor, timestamp |-> now]>>
               ELSE <<>>)
        old_tier == s4.donor_info[donor].tier
        dtotal == checked_add(s4.donor_info[donor].total_donated, amount)
        dcount == checked_add(s4.donor_info[donor].donation_count, 1)
        s5 == [s4 EXCEPT !.donor_info[donor].total_donated = dtotal[1]]
        s6 == [s5 EXCEPT !.donor_info[donor].donation_count = dcount[1]]
        s7 == [s6 EXCEPT !.donor_info[donor].last_donation_timestamp = now]
        new_tier == calculate_tier(s7.donor_info[donor].total_donated)
        s8 == [s7 EXCEPT !.donor_info[donor].tier = new_tier]
        e8 == e4 \o <<Write("donor_info")>> \o
              (IF old_tier # new_tier /\ ~is_new_donor
               THEN <<[effect |-> "emit", event |-> "TierUpgradeEvent", donor |-> donor,
                       old_tier |-> old_tier, new_tier |-> new_tier,
                       total_donated |-> s8.donor_info[donor].total_donated,
                       timestamp |-> now]>>
               ELSE <<>>) \o
              <<[effect |-> "emit", event |-> "DonationEvent", donor |-> donor,
                 amount |-> amount, total_donated |-> s8.vault_state.total_donated,
                 donor_tier |-> s8.donor_info[donor].tier]>>
    IN  IF vs.is_paused THEN Ret("ContractPaused", s, <<>>)
        ELSE IF ~(amount >= vs.min_donation_amount) THEN Ret("DonationTooSmall", s, <<>>)
        ELSE IF ~(amount <= vs.max_donation_amount) THEN Ret("DonationTooLarge", s, <<>>)
        ELSE IF s.lamports[donor] < amount THEN Ret("ResultWithNegativeLamports", s, <<>>)
        ELSE IF total = None THEN Ret("Overflow", s1, e1)
        ELSE IF count = None THEN Ret("Overflow", s2, e1)
        ELSE IF unique = None THEN Ret("Overflow", s3, e1)
        ELSE IF dtotal = None THEN Ret("Overflow", s4, e4)
        ELSE IF dcount = None THEN Ret("Overflow", s5, e4)
        ELSE Ret("Ok", s8, e8)

\* mutant: total_withdrawn is added to with wrapping_add
pay_admin_wrapping(s, admin, withdraw_amount, event, debit_ok) ==
    LET s1 == move_lamports(s, VAULT, admin, withdraw_amount)
    IN  IF lamports_panic(s, VAULT, admin, withdraw_amount) THEN Ret("Panic", s, <<>>)
        ELSE IF ~debit_ok THEN Ret("ExternalAccountLamportSpend", s, <<>>)
        ELSE Ret("Ok",
                 [s1 EXCEPT !.vault_state.total_withdrawn =
                                wrapping_add(s.vault_state.total_withdrawn, withdraw_amount)],
                 <<Transfer(VAULT, admin, withdraw_amount), Write("vault_state"),
                   [effect |-> "emit", event |-> event, admin |-> admin,
                    amount |-> withdraw_amount]>>)

\* the tail shared by withdraw, withdraw_partial and emergency_withdraw:
\* move the lamports to the admin, add to total_withdrawn, emit `event`
pay_admin(s, admin, withdraw_amount, event, debit_ok) ==
    LET s1 == move_lamports(s, VAULT, admin, withdraw_amount)
        e1 == <<Transfer(VAULT, admin, withdraw_amount)>>
        tw == checked_add(s.vault_state.total_withdrawn, withdraw_amount)
    IN  IF lamports_panic(s, VAULT, admin, withdraw_amount) THEN Ret("Panic", s, <<>>)
        ELSE IF ~debit_ok THEN Ret("ExternalAccountLamportSpend", s, <<>>)
        ELSE IF tw = None THEN Ret("Overflow", s1, e1)
        ELSE Ret("Ok", [s1 EXCEPT !.vault_state.total_withdrawn = tw[1]],
                 e1 \o <<Write("vault_state"),
                         [effect |-> "emit", event |-> event, admin |-> admin,
                          amount |-> withdraw_amount]>>)

\* mutant: pays out the whole balance, rent-exempt minimum included
withdraw_whole_balance(s, admin, debit_ok) ==
    LET balance == s.lamports[VAULT]
    IN  IF admin # s.vault_state.admin THEN Ret("Unauthorized", s, <<>>)
        ELSE IF ~(balance > 0) THEN Ret("InsufficientFunds", s, <<>>)
        ELSE pay_admin(s, admin, balance, "WithdrawEvent", debit_ok)

\* mutant: refuses to pay out while the vault is paused
withdraw_unless_paused(s, admin, debit_ok) ==
    LET balance == s.lamports[VAULT]
        rent_exempt_minimum == RentExemptMinimum
    IN  IF admin # s.vault_state.admin THEN Ret("Unauthorized", s, <<>>)
        ELSE IF s.vault_state.is_paused THEN Ret("ContractPaused", s, <<>>)
        ELSE IF ~(balance > rent_exempt_minimum) THEN Ret("InsufficientFunds", s, <<>>)
        ELSE pay_admin(s, admin, balance - rent_exempt_minimum, "WithdrawEvent", debit_ok)

\* mutant: a vault holding exactly its minimum passes the balance test
withdraw_at_floor(s, admin, debit_ok) ==
    LET balance == s.lamports[VAULT]
        rent_exempt_minimum == RentExemptMinimum
    IN  IF admin # s.vault_state.admin THEN Ret("Unauthorized", s, <<>>)
        ELSE IF ~(balance > 0) THEN Ret("InsufficientFunds", s, <<>>)
        ELSE IF ~(balance >= rent_exempt_minimum) THEN Ret("InsufficientFunds", s, <<>>)
        ELSE pay_admin(s, admin, balance - rent_exempt_minimum, "WithdrawEvent", debit_ok)

withdraw(s, admin, debit_ok) ==
    LET balance == s.lamports[VAULT]
        rent_exempt_minimum == RentExemptMinimum
    IN  IF admin # s.vault_state.admin THEN Ret("Unauthorized", s, <<>>)
        ELSE IF ~(balance > 0) THEN Ret("InsufficientFunds", s, <<>>)
        ELSE IF ~(balance > rent_exempt_minimum) THEN Ret("InsufficientFunds", s, <<>>)
        ELSE pay_admin(s, admin, balance - rent_exempt_minimum, "WithdrawEvent", debit_ok)

withdraw_partial(s, admin, amount, debit_ok) ==
    LET balance == s.lamports[VAULT]
        rent_exempt_minimum == RentExemptMinimum
    IN  IF admin # s.vault_state.admin THEN Ret("Unauthorized", s, <<>>)
        ELSE IF ~(balance > 0) THEN Ret("InsufficientFunds", s, <<>>)
        ELSE IF ~(amount > 0) THEN Ret("InvalidAmount", s, <<>>)
        ELSE IF overflow_checks /\ add_overflows(amount, rent_exempt_minimum)
             THEN Ret("Panic", s, <<>>)
        ELSE IF ~(balance >= wrapping_add(amount, rent_exempt_minimum))
             THEN Ret("InsufficientFunds", s, <<>>)
        ELSE pay_admin(s, admin, amount, "WithdrawEvent", debit_ok)

\* mutant: amount = 0 is refused instead of meaning "everything above the minimum"
emergency_withdraw_no_sentinel(s, admin, amount, debit_ok) ==
    LET balance == s.lamports[VAULT]
        rent_exempt_minimum == RentExemptMinimum
    IN  IF admin # s.vault_state.admin THEN Ret("Unauthorized", s, <<>>)
        ELSE IF ~(balance > 0) THEN Ret("InsufficientFunds", s, <<>>)
        ELSE IF ~(amount > 0) THEN Ret("InvalidAmount", s, <<>>)
        ELSE IF overflow_checks /\ add_overflows(amount, rent_exempt_minimum)
             THEN Ret("Panic", s, <<>>)
        ELSE IF ~(balance >= wrapping_add(amount, rent_exempt_minimum))
             THEN Ret("InsufficientFunds", s, <<>>)
        ELSE pay_admin(s, admin, amount, "EmergencyWithdrawEvent", debit_ok)

emergency_withdraw(s, admin, amount, debit_ok) ==
    LET balance == s.lamports[VAULT]
        rent_exempt_minimum == RentExemptMinimum
    IN  IF admin # s.vault_state.admin THEN Ret("Unauthorized", s, <<>>)
        ELSE IF ~(balance > 0) THEN Ret("InsufficientFunds", s, <<>>)
        ELSE IF amount = 0
             THEN IF ~(balance > rent_exempt_minimum) THEN Ret("InsufficientFunds", s, <<>>)
                  ELSE pay_admin(s, admin, balance - rent_exempt_minimum,
                                 "EmergencyWithdrawEvent", debit_ok)
        ELSE IF ~(amount > 0) THEN Ret("InvalidAmount", s, <<>>)
        ELSE IF overflow_checks /\ add_overflows(amount, rent_exempt_minimum)
             THEN Ret("Panic", s, <<>>)
        ELSE IF ~(balance >= wrapping_add(amount, rent_exempt_minimum))
             THEN Ret("InsufficientFunds", s, <<>>)
        ELSE pay_admin(s, admin, amount, "EmergencyWithdrawEvent", debit_ok)

\* mutant: the transfer is announced and the old admin stays in place
update_admin_announced_only(s, admin, new_admin, now) ==
    IF admin # s.vault_state.admin THEN Ret("Unauthorized", s, <<>>)
    ELSE IF ~(new_admin # SYSTEM_PROGRAM_ID) THEN Ret("InvalidAdmin", s, <<>>)
    ELSE IF ~(new_admin # PUBKEY_DEFAULT) THEN Ret("InvalidAdmin", s, <<>>)
    ELSE Ret("Ok", s,
             <<Write("vault_state"),
               [effect |-> "emit", event |-> "AdminTransferEvent",
                old_admin |-> s.vault_state.admin, new_admin |-> new_admin,
                timestamp |-> now]>>)

update_admin(s, admin, new_admin, now) ==
    IF admin # s.vault_state.admin THEN Ret("Unauthorized", s, <<>>)
    ELSE IF ~(new_admin # SYSTEM_PROGRAM_ID) THEN Ret("InvalidAdmin", s, <<>>)
    ELSE IF ~(new_admin # PUBKEY_DEFAULT) THEN Ret("InvalidAdmin", s, <<>>)
    ELSE Ret("Ok", [s EXCEPT !.vault_state.admin = new_admin],
             <<Write("vault_state"),
               [effect |-> "emit", event |-> "AdminTransferEvent",
                old_admin |-> s.vault_state.admin, new_admin |-> new_admin,
                timestamp |-> now]>>)

\* mutant: no check of the signer
pause_by_anyone(s, admin) ==
    Ret("Ok", [s EXCEPT !.vault_state.is_paused = TRUE],
        <<Write("vault_state"),
          [effect |-> "emit", event |-> "PauseEvent", admin |-> admin, paused |-> TRUE]>>)

pause(s, admin) ==
    IF admin # s.vault_state.admin THEN Ret("Unauthorized", s, <<>>)
    ELSE Ret("Ok", [s EXCEPT !.vault_state.is_paused = TRUE],
             <<Write("vault_state"),
               [effect |-> "emit", event |-> "PauseEvent", admin |-> admin,
                paused |-> TRUE]>>)

\* mutant: unpause sets the flag as pause does, so that Paused is terminal
unpause_as_pause(s, admin) == pause(s, admin)

unpause(s, admin) ==
    IF admin # s.vault_state.admin THEN Ret("Unauthorized", s, <<>>)
    ELSE Ret("Ok", [s EXCEPT !.vault_state.is_paused = FALSE],
             <<Write("vault_state"),
               [effect |-> "emit", event |-> "PauseEvent", admin |-> admin,
                paused |-> FALSE]>>)

\* mutant: the new limits are stored without being validated
update_donation_limits_unchecked(s, admin, min_amount, max_amount) ==
    IF admin # s.vault_state.admin THEN Ret("Unauthorized", s, <<>>)
    ELSE Ret("Ok",
             [s EXCEPT !.vault_state.min_donation_amount = min_amount,
                       !.vault_state.max_donation_amount = max_amount],
             <<Write("vault_state")>>)

update_donation_limits(s, admin, min_amount, max_amount) ==
    IF admin # s.vault_state.admin THEN Ret("Unauthorized", s, <<>>)
    ELSE IF ~(min_amount > 0) THEN Ret("InvalidAmount", s, <<>>)
    ELSE IF ~(max_amount > min_amount) THEN Ret("InvalidAmount", s, <<>>)
    ELSE Ret("Ok",
             [s EXCEPT !.vault_state.min_donation_amount = min_amount,
                       !.vault_state.max_donation_amount = max_amount],
             <<Write("vault_state"),
               [effect |-> "emit", event |-> "DonationLimitsUpdatedEvent",
                admin |-> admin,
                old_min_amount |-> s.vault_state.min_donation_amount,
                old_max_amount |-> s.vault_state.max_donation_amount,
                new_min_amount |-> min_amount, new_max_amount |-> max_amount]>>)

\* mutant: the amount is not compared with what the donor has given
refund_donation_unbounded(s, admin, donor, amount, debit_ok) ==
    LET di == s.donor_info[donor]
        balance == s.lamports[VAULT]
        s1 == move_lamports(s, VAULT, donor, amount)
        e1 == <<Transfer(VAULT, donor, amount)>>
        dtotal == checked_sub(di.total_donated, amount)
        s2 == [s1 EXCEPT !.donor_info[donor].total_donated = dtotal[1]]
        s3 == [s2 EXCEPT !.donor_info[donor].tier =
                            calculate_tier(s2.donor_info[donor].total_donated)]
    IN  IF admin # s.vault_state.admin THEN Ret("Unauthorized", s, <<>>)
        ELSE IF ~(amount > 0) THEN Ret("InvalidAmount", s, <<>>)
        ELSE IF ~(balance >= wrapping_add(amount, RentExemptMinimum))
             THEN Ret("InsufficientFunds", s, <<>>)
        ELSE IF ~debit_ok THEN Ret("ExternalAccountLamportSpend", s, <<>>)
        ELSE IF dtotal = None THEN Ret("Overflow", s1, e1)
        ELSE Ret("Ok", s3, e1 \o <<Write("donor_info")>>)

refund_donation(s, admin, donor, amount, debit_ok) ==
    LET di == s.donor_info[donor]
        balance == s.lamports[VAULT]
        rent_exempt_minimum == RentExemptMinimum
        old_tier == di.tier
        s1 == move_lamports(s, VAULT, donor, amount)
        e1 == <<Transfer(VAULT, donor, amount)>>
        dtotal == checked_sub(di.total_donated, amount)
        s2 == [s1 EXCEPT !.donor_info[donor].total_donated = dtotal[1]]
        new_tier == calculate_tier(s2.donor_info[donor].total_donated)
        s3 == [s2 EXCEPT !.donor_info[donor].tier = new_tier]
    IN  IF admin # s.vault_state.admin THEN Ret("Unauthorized", s, <<>>)
        ELSE IF ~(amount > 0) THEN Ret("InvalidAmount", s, <<>>)
        ELSE IF ~(amount <= di.total_donated) THEN Ret("RefundExceedsDonation", s, <<>>)
        ELSE IF overflow_checks /\ add_overflows(amount, rent_exempt_minimum)
             THEN Ret("Panic", s, <<>>)
        ELSE IF ~(balance >= wrapping_add(amount, rent_exempt_minimum))
             THEN Ret("InsufficientFunds", s, <<>>)
        ELSE IF lamports_panic(s, VAULT, donor, amount) THEN Ret("Panic", s, <<>>)
        ELSE IF ~debit_ok THEN Ret("ExternalAccountLamportSpend", s, <<>>)
        ELSE IF dtotal = None THEN Ret("Overflow", s1, e1)
        ELSE Ret("Ok", s3,
                 e1 \o <<Write("donor_info"),
                         [effect |-> "emit", event |-> "RefundEvent", admin |-> admin,
                          donor |-> donor, amount |-> amount]>>)

---------------------------------------------------------------------------
(* programs/donation: account validation (#[derive(Accounts)]) in front of *)
(* each handler, and the runtime's treatment of the handler's result       *)

\* Account<'info, VaultState> without `init`: the account must exist
vault_state_missing(s) == ~s.vault_state_init

\* mutant: `init_if_needed` in place of `init`
Initialize_if_needed(s, admin) ==
    initialize([s EXCEPT !.vault_state_init = TRUE], admin)

Initialize(s, admin) ==
    IF s.vault_state_init THEN Ret("AccountAlreadyInUse", s, <<>>)
    ELSE initialize([s EXCEPT !.vault_state_init = TRUE], admin)

\* mutant: the handler runs as if the vault were not paused
Donate_ignoring_pause(s, donor, amount, now) ==
    IF vault_state_missing(s) THEN Ret("AccountNotInitialized", s, <<>>)
    ELSE donate([s EXCEPT !.donor_info_init = @ \cup {donor},
                          !.vault_state.is_paused = FALSE], donor, amount, now)

\* mutant: the upper limit is exclusive
Donate_below_max(s, donor, amount, now) ==
    IF vault_state_missing(s) THEN Ret("AccountNotInitialized", s, <<>>)
    ELSE IF amount = s.vault_state.max_donation_amount
         THEN Ret("DonationTooLarge", s, <<>>)
    ELSE donate([s EXCEPT !.donor_info_init = @ \cup {donor}], donor, amount, now)

\* mutant: a donation stamps the record of every donor with its time
Donate_stamping_all(s, donor, amount, now) ==
    LET out == IF vault_state_missing(s) THEN Ret("AccountNotInitialized", s, <<>>)
               ELSE donate([s EXCEPT !.donor_info_init = @ \cup {donor}], donor, amount, now)
    IN  IF out.result # "Ok" THEN out
        ELSE Ret("Ok",
                 [out.s EXCEPT !.donor_info =
                     [d \in Keys |-> [@[d] EXCEPT !.last_donation_timestamp = now]]],
                 out.effects)

Donate(s, donor, amount, now) ==
    IF vault_state_missing(s) THEN Ret("AccountNotInitialized", s, <<>>)
    ELSE donate([s EXCEPT !.donor_info_init = @ \cup {donor}], donor, amount, now)

Withdraw(s, admin, debit_ok) ==
    IF vault_state_missing(s) THEN Ret("AccountNotInitialized", s, <<>>)
    ELSE withdraw(s, admin, debit_ok)

WithdrawPartial(s, admin, amount, debit_ok) ==
    IF vault_state_missing(s) THEN Ret("AccountNotInitialized", s, <<>>)
    ELSE withdraw_partial(s, admin, amount, debit_ok)

EmergencyWithdraw(s, admin, amount, debit_ok) ==
    IF vault_state_missing(s) THEN Ret("AccountNotInitialized", s, <<>>)
    ELSE emergency_withdraw(s, admin, amount, debit_ok)

UpdateAdmin(s, admin, new_admin, now) ==
    IF vault_state_missing(s) THEN Ret("AccountNotInitialized", s, <<>>)
    ELSE update_admin(s, admin, new_admin, now)

Pause(s, admin) ==
    IF vault_state_missing(s) THEN Ret("AccountNotInitialized", s, <<>>)
    ELSE pause(s, admin)

Unpause(s, admin) ==
    IF vault_state_missing(s) THEN Ret("AccountNotInitialized", s, <<>>)
    ELSE unpause(s, admin)

UpdateDonationLimits(s, admin, min_amount, max_amount) ==
    IF vault_state_missing(s) THEN Ret("AccountNotInitialized", s, <<>>)
    ELSE update_donation_limits(s, admin, min_amount, max_amount)

\* mutant: a refund lowers the donor's total and leaves the stored tier alone
RefundDonation_keeping_tier(s, admin, donor, amount, debit_ok) ==
    LET out == refund_donation(s, admin, donor, amount, debit_ok)
    IN  IF vault_state_missing(s) THEN Ret("AccountNotInitialized", s, <<>>)
        ELSE IF donor \notin s.donor_info_init THEN Ret("AccountNotInitialized", s, <<>>)
        ELSE Ret(out.result,
                 [out.s EXCEPT !.donor_info[donor].tier = s.donor_info[donor].tier],
                 out.effects)

\* mutant: a refund is taken off the vault's total_donated as well
RefundDonation_off_vault_total(s, admin, donor, amount, debit_ok) ==
    LET out == refund_donation(s, admin, donor, amount, debit_ok)
        left == checked_sub(s.vault_state.total_donated, amount)
    IN  IF vault_state_missing(s) THEN Ret("AccountNotInitialized", s, <<>>)
        ELSE IF donor \notin s.donor_info_init THEN Ret("AccountNotInitialized", s, <<>>)
        ELSE IF out.result = "Ok" /\ left # None
             THEN Ret("Ok", [out.s EXCEPT !.vault_state.total_donated = left[1]], out.effects)
        ELSE out

\* mutant: a refund of the donor's whole total also takes back a donation
RefundDonation_uncounting(s, admin, donor, amount, debit_ok) ==
    LET out == refund_donation(s, admin, donor, amount, debit_ok)
        n == s.donor_info[donor].donation_count
    IN  IF vault_state_missing(s) THEN Ret("AccountNotInitialized", s, <<>>)
        ELSE IF donor \notin s.donor_info_init THEN Ret("AccountNotInitialized", s, <<>>)
        ELSE IF out.result = "Ok" /\ out.s.donor_info[donor].total_donated = 0 /\ n > 0
             THEN Ret("Ok", [out.s EXCEPT !.donor_info[donor].donation_count = n - 1],
                      out.effects)
        ELSE out

RefundDonation(s, admin, donor, amount, debit_ok) ==
    IF vault_state_missing(s) THEN Ret("AccountNotInitialized", s, <<>>)
    ELSE IF donor \notin s.donor_info_init THEN Ret("AccountNotInitialized", s, <<>>)
    ELSE refund_donation(s, admin, donor, amount, debit_ok)

\* The runtime rejects an instruction that returned Ok but changed the sum of
\* the lamports of its accounts
anchor_result(pre, out) ==
    IF out.result = "Ok" /\ total_lamports(out.s.lamports) # total_lamports(pre.lamports)
    THEN "UnbalancedInstruction"
    ELSE out.result

\* mutant: what the handler wrote before it failed is stored
anchor_commit_partial(pre, out) == out.s

\* Result<()>: the accounts are stored when the instruction succeeded, and
\* every change is discarded when it returned an error (by `?`, require!,
\* require_keys_eq!) or panicked
anchor_commit(pre, out) ==
    IF anchor_result(pre, out) = "Ok" THEN out.s ELSE pre

Call(op, caller, amount, other, max, result) ==
    [op |-> op, caller |-> caller, amount |-> amount, other |-> other,
     max |-> max, result |-> result]

\* A rejected call is recorded in `last` and leaves everything else as it
\* was, so the calls that can follow it are the calls that can follow the
\* state it was submitted in: they are explored from there.
Accepting == last.result \in {"", "Ok"} /\ made < MaxCalls

Count(op, result) ==
    IF result = "Ok" THEN made + 1 ELSE made

\* the program log: the milestones announced by the events in `done`
RECURSIVE milestones_logged(_)
milestones_logged(done) ==
    IF done = <<>> THEN <<>>
    ELSE (IF Head(done).effect = "emit" /\ Head(done).event = "MilestoneReachedEvent"
          THEN <<Head(done).milestone_amount>> ELSE <<>>)
         \o milestones_logged(Tail(done))

\* nothing has moved yet
NothingMoved ==
    [donated |-> [d \in Keys |-> 0], refunded |-> [d \in Keys |-> 0], withdrawn |-> 0,
     donors |-> {}]

\* the ledger's history: m with the transfers of the successful call `op`
\* added; a transfer into the vault is a donation, one out of it a refund
\* (refund_donation) or a withdrawal
RECURSIVE tally(_, _, _)
tally(m, op, done) ==
    IF done = <<>> THEN m
    ELSE LET e == Head(done)
             m1 == IF e.effect # "transfer" THEN m
                   ELSE IF e.to = VAULT
                        THEN [m EXCEPT !.donated[e.from] = @ + e.amount,
                                       !.donors = @ \cup {e.from}]
                   ELSE IF op = "refund_donation"
                        THEN [m EXCEPT !.refunded[e.to] = @ + e.amount]
                   ELSE [m EXCEPT !.withdrawn = @ + e.amount]
         IN  tally(m1, op, Tail(done))

\* no helper function is being applied on its own
NotApplied == [f |-> "", x |-> 0, y |-> 0, value |-> <<>>]

Process(op, caller, amount, other, max, out) ==
    LET result == anchor_result(Accts, out)
        post == anchor_commit(Accts, out)
    IN  /\ variant = "anchor"
        /\ Accepting
        /\ vault_state_init' = post.vault_state_init
        /\ vault_state' = post.vault_state
        /\ donor_info_init' = post.donor_info_init
        /\ donor_info' = post.donor_info
        /\ lamports' = post.lamports
        /\ made' = Count(op, result)
        /\ last' = Call(op, caller, amount, other, max, result)
        /\ before' = Storage
        /\ effects' = IF result = "Ok" THEN out.effects ELSE <<>>
        /\ reported' = IF result = "Ok" THEN reported \o milestones_logged(out.effects)
                       ELSE reported
        /\ moved' = IF result = "Ok" THEN tally(moved, op, out.effects) ELSE moved
        /\ UNCHANGED <<variant, overflow_checks, contract, applied>>

---------------------------------------------------------------------------
(* Inputs the calls are submitted with *)

DonateAmounts == {0, 1, TIER_GOLD, DEFAULT_MAX_DONATION, DEFAULT_MAX_DONATION + 1}
WithdrawAmounts ==
    {0, 1, lamports[VAULT] - RentExemptMinimum, lamports[VAULT], U64_MAX - 1, U64_MAX}
        \cap (0 .. U64_MAX)
RefundAmounts(total_donated) == {0, 1, total_donated, total_donated + 1}
LimitPairs == {<<0, TIER_GOLD>>, <<TIER_GOLD, TIER_GOLD>>, <<TIER_SILVER, TIER_GOLD>>}
NoKey == ""

---------------------------------------------------------------------------
(* programs/donation: one action per instruction *)

CallInitialize ==
    \E admin \in Keys :
        Process("initialize", admin, 0, NoKey, 0, Initialize(Accts, admin))

CallDonate ==
    \E donor \in Keys, amount \in DonateAmounts, now \in Timestamps :
        Process("donate", donor, amount, NoKey, 0, Donate(Accts, donor, amount, now))

CallWithdraw ==
    \E admin \in Keys, debit_ok \in BOOLEAN :
        Process("withdraw", admin, 0, NoKey, 0, Withdraw(Accts, admin, debit_ok))

CallWithdrawPartial ==
    \E admin \in Keys, amount \in WithdrawAmounts, debit_ok \in BOOLEAN :
        Process("withdraw_partial", admin, amount, NoKey, 0,
                WithdrawPartial(Accts, admin, amount, debit_ok))

CallEmergencyWithdraw ==
    \E admin \in Keys, amount \in WithdrawAmounts, debit_ok \in BOOLEAN :
        Process("emergency_withdraw", admin, amount, NoKey, 0,
                EmergencyWithdraw(Accts, admin, amount, debit_ok))

CallUpdateAdmin ==
    \E admin \in Keys, new_admin \in Keys \cup {SYSTEM_PROGRAM_ID}, now \in Timestamps :
        Process("update_admin", admin, 0, new_admin, 0,
                UpdateAdmin(Accts, admin, new_admin, now))

CallPause ==
    \E admin \in Keys : Process("pause", admin, 0, NoKey, 0, Pause(Accts, admin))

CallUnpause ==
    \E admin \in Keys : Process("unpause", admin, 0, NoKey, 0, Unpause(Accts, admin))

CallUpdateDonationLimits ==
    \E admin \in Keys, l \in LimitPairs :
        Process("update_donation_limits", admin, l[1], NoKey, l[2],
                UpdateDonationLimits(Accts, admin, l[1], l[2]))

CallRefundDonation ==
    \E admin \in Keys, donor \in Keys :
      \E amount \in RefundAmounts(donor_info[donor].total_donated), debit_ok \in BOOLEAN :
        Process("refund_donation", admin, amount, donor, 0,
                RefundDonation(Accts, admin, donor, amount, debit_ok))

---------------------------------------------------------------------------
(* languages/ink and languages/rust-near: storage and pure helpers *)

Store == [contract |-> contract, lamports |-> lamports]

\* Mapping / LookupMap: m.get(&k).unwrap_or(0) and m.insert(k, &v)
EmptyMapping == [k \in {} |-> 0]
Get(m, k) == IF k \in DOMAIN m THEN m[k] ELSE 0
Insert(m, k, v) == [x \in DOMAIN m \cup {k} |-> IF x = k THEN v ELSE m[x]]

Emit(event, who, amount) ==
    [effect |-> "emit", event |-> event, who |-> who, amount |-> amount]

DOT == 1000    \* 1 DOT, in units of 10^7 Planck
NEAR == 1000   \* 1 NEAR, in units of 10^21 yoctoNEAR

\* mutant: a threshold is reached only when it is exceeded
calculate_tier_value_exclusive(amount) ==
    IF amount > 10 * DOT THEN 4
    ELSE IF amount > DOT THEN 3
    ELSE IF amount > DOT \div 10 THEN 2
    ELSE IF amount > DOT \div 100 THEN 1
    ELSE 0

calculate_tier_value(amount) ==
    IF amount >= 10 * DOT THEN 4
    ELSE IF amount >= DOT THEN 3
    ELSE IF amount >= DOT \div 10 THEN 2
    ELSE IF amount >= DOT \div 100 THEN 1
    ELSE 0

near_calculate_tier(amount) ==
    IF amount >= 10 * NEAR THEN "Platinum"
    ELSE IF amount >= NEAR THEN "Gold"
    ELSE IF amount >= NEAR \div 10 THEN "Silver"
    ELSE IF amount >= NEAR \div 100 THEN "Bronze"
    ELSE "None"

---------------------------------------------------------------------------
(* languages/ink: constructor and messages *)

ink_new ==
    [admin |-> ZERO_ACCOUNT_ID, total_donations |-> 0, donor_amounts |-> EmptyMapping,
     donor_count |-> 0, min_donation |-> 0, max_donation |-> 0,
     paused |-> FALSE, initialized |-> FALSE]

only_admin(s, caller) == caller = s.contract.admin

ink_initialize(s, admin, min_donation, max_donation) ==
    IF s.contract.initialized THEN Ret("AlreadyInitialized", s, <<>>)
    ELSE IF min_donation = 0 \/ max_donation <= min_donation
         THEN Ret("InvalidLimits", s, <<>>)
    ELSE Ret("Ok",
             [s EXCEPT !.contract.admin = admin,
                       !.contract.min_donation = min_donation,
                       !.contract.max_donation = max_donation,
                       !.contract.initialized = TRUE],
             <<Write("contract"), Emit("Initialized", admin, 0)>>)

\* payable: s already holds the transferred value
ink_donate(s, caller, amount) ==
    LET c == s.contract
        current_amount == Get(c.donor_amounts, caller)
        new_amount == saturating_add(current_amount, amount)
        s1 == [s EXCEPT !.contract.donor_amounts = Insert(@, caller, new_amount)]
        s2 == [s1 EXCEPT !.contract.total_donations = saturating_add(@, amount)]
        s3 == IF current_amount = 0
              THEN [s2 EXCEPT !.contract.donor_count = saturating_add(@, 1)]
              ELSE s2
    IN  IF ~c.initialized THEN Ret("NotInitialized", s, <<>>)
        ELSE IF c.paused THEN Ret("ContractPaused", s, <<>>)
        ELSE IF amount < c.min_donation THEN Ret("DonationTooSmall", s, <<>>)
        ELSE IF amount > c.max_donation THEN Ret("DonationTooLarge", s, <<>>)
        ELSE Ret("Ok", s3,
                 <<Transfer(caller, VAULT, amount), Write("contract"),
                   [effect |-> "emit", event |-> "DonationReceived", who |-> caller,
                    amount |-> amount, total |-> new_amount,
                    tier |-> calculate_tier_value(new_amount)]>>)

\* transfer_ok: whether the host carries out self.env().transfer
ink_withdraw(s, caller, amount, recipient, transfer_ok) ==
    IF ~only_admin(s, caller) THEN Ret("NotAdmin", s, <<>>)
    ELSE IF ~s.contract.initialized THEN Ret("NotInitialized", s, <<>>)
    ELSE IF s.lamports[VAULT] < amount THEN Ret("InsufficientBalance", s, <<>>)
    ELSE IF ~transfer_ok THEN Ret("TransferFailed", s, <<>>)
    ELSE Ret("Ok", system_transfer(s, VAULT, recipient, amount),
             <<Transfer(VAULT, recipient, amount), Emit("Withdrawal", caller, amount)>>)

ink_emergency_withdraw(s, caller, recipient, transfer_ok) ==
    LET balance == s.lamports[VAULT]
    IN  IF ~only_admin(s, caller) THEN Ret("NotAdmin", s, <<>>)
        ELSE IF ~s.contract.initialized THEN Ret("NotInitialized", s, <<>>)
        ELSE IF ~transfer_ok THEN Ret("TransferFailed", s, <<>>)
        ELSE Ret("Ok", system_transfer(s, VAULT, recipient, balance),
                 <<Transfer(VAULT, recipient, balance),
                   Emit("EmergencyWithdrawal", caller, balance)>>)

ink_pause(s, caller) ==
    IF ~only_admin(s, caller) THEN Ret("NotAdmin", s, <<>>)
    ELSE IF s.contract.paused THEN Ret("ContractPaused", s, <<>>)
    ELSE Ret("Ok", [s EXCEPT !.contract.paused = TRUE],
             <<Write("contract"), Emit("ContractPaused", caller, 0)>>)

ink_unpause(s, caller) ==
    IF ~only_admin(s, caller) THEN Ret("NotAdmin", s, <<>>)
    ELSE IF ~s.contract.paused THEN Ret("ContractNotPaused", s, <<>>)
    ELSE Ret("Ok", [s EXCEPT !.contract.paused = FALSE],
             <<Write("contract"), Emit("ContractUnpaused", caller, 0)>>)

\* a message that returns Err reverts: storage and the transferred value
ink_commit(pre, out) == IF out.result = "Ok" THEN out.s ELSE pre

---------------------------------------------------------------------------
(* languages/rust-near: constructor and methods; a failed assert! panics *)

near_new(predecessor) ==
    [admin |-> predecessor, total_donations |-> 0, donor_amounts |-> EmptyMapping,
     donor_count |-> 0, min_donation |-> 0, max_donation |-> 0,
     paused |-> FALSE, initialized |-> FALSE]

assert_admin(s, predecessor) == predecessor = s.contract.admin

near_initialize(s, admin, min_donation, max_donation) ==
    IF ~(~s.contract.initialized) THEN Ret("Already initialized", s, <<>>)
    ELSE IF ~(min_donation > 0) THEN Ret("Minimum donation must be > 0", s, <<>>)
    ELSE IF ~(max_donation > min_donation) THEN Ret("Max must be > min", s, <<>>)
    ELSE Ret("Ok",
             [s EXCEPT !.contract.admin = admin,
                       !.contract.min_donation = min_donation,
                       !.contract.max_donation = max_donation,
                       !.contract.initialized = TRUE],
             <<Write("contract"), Emit("Initialized", admin, 0)>>)

\* payable: s already holds the attached deposit
near_donate(s, donor, amount) ==
    LET c == s.contract
        current_amount == Get(c.donor_amounts, donor)
        new_amount == checked_add(current_amount, amount)
        s1 == [s EXCEPT !.contract.donor_amounts = Insert(@, donor, new_amount[1])]
        total == checked_add(c.total_donations, amount)
        s2 == [s1 EXCEPT !.contract.total_donations = total[1]]
        s3 == IF current_amount = 0
              THEN [s2 EXCEPT !.contract.donor_count = wrapping_add(@, 1)]
              ELSE s2
    IN  IF ~c.initialized THEN Ret("Not initialized", s, <<>>)
        ELSE IF ~(~c.paused) THEN Ret("Contract is paused", s, <<>>)
        ELSE IF ~(amount >= c.min_donation) THEN Ret("Donation too small", s, <<>>)
        ELSE IF ~(amount <= c.max_donation) THEN Ret("Donation too large", s, <<>>)
        ELSE IF new_amount = None THEN Ret("Overflow", s, <<>>)
        ELSE IF total = None THEN Ret("Overflow", s1, <<>>)
        ELSE IF current_amount = 0 /\ overflow_checks
                /\ add_overflows(c.donor_count, 1)
             THEN Ret("attempt to add with overflow", s2, <<>>)
        ELSE Ret("Ok", s3,
                 <<Transfer(donor, VAULT, amount), Write("contract"),
                   [effect |-> "emit", event |-> "DonationReceived", who |-> donor,
                    amount |-> amount, total |-> new_amount[1],
                    tier |-> near_calculate_tier(new_amount[1])]>>)

near_withdraw(s, predecessor, amount, recipient) ==
    IF ~assert_admin(s, predecessor) THEN Ret("Only admin can call this function", s, <<>>)
    ELSE IF ~s.contract.initialized THEN Ret("Not initialized", s, <<>>)
    ELSE IF ~(amount > 0) THEN Ret("Amount must be > 0", s, <<>>)
    ELSE IF ~(amount <= s.lamports[VAULT]) THEN Ret("Insufficient balance", s, <<>>)
    ELSE Ret("Ok", system_transfer(s, VAULT, recipient, amount),
             <<Emit("Withdrawal", predecessor, amount), Transfer(VAULT, recipient, amount)>>)

near_emergency_withdraw(s, predecessor, recipient) ==
    LET balance == s.lamports[VAULT]
    IN  IF ~assert_admin(s, predecessor)
        THEN Ret("Only admin can call this function", s, <<>>)
        ELSE IF ~s.contract.initialized THEN Ret("Not initialized", s, <<>>)
        ELSE Ret("Ok", system_transfer(s, VAULT, recipient, balance),
                 <<Emit("EmergencyWithdrawal", predecessor, balance),
                   Transfer(VAULT, recipient, balance)>>)

near_pause(s, predecessor) ==
    IF ~assert_admin(s, predecessor) THEN Ret("Only admin can call this function", s, <<>>)
    ELSE IF ~(~s.contract.paused) THEN Ret("Already paused", s, <<>>)
    ELSE Ret("Ok", [s EXCEPT !.contract.paused = TRUE],
             <<Write("contract"), Emit("ContractPaused", predecessor, 0)>>)

near_unpause(s, predecessor) ==
    IF ~assert_admin(s, predecessor) THEN Ret("Only admin can call this function", s, <<>>)
    ELSE IF ~s.contract.paused THEN Ret("Not paused", s, <<>>)
    ELSE Ret("Ok", [s EXCEPT !.contract.paused = FALSE],
             <<Write("contract"), Emit("ContractUnpaused", predecessor, 0)>>)

near_update_admin(s, predecessor, new_admin) ==
    IF ~assert_admin(s, predecessor) THEN Ret("Only admin can call this function", s, <<>>)
    ELSE Ret("Ok", [s EXCEPT !.contract.admin = new_admin], <<Write("contract")>>)

near_update_limits(s, predecessor, min_donation, max_donation) ==
    IF ~assert_admin(s, predecessor) THEN Ret("Only admin can call this function", s, <<>>)
    ELSE IF ~(min_donation > 0) THEN Ret("Min must be > 0", s, <<>>)
    ELSE IF ~(max_donation > min_donation) THEN Ret("Max must be > min", s, <<>>)
    ELSE Ret("Ok",
             [s EXCEPT !.contract.min_donation = min_donation,
                       !.contract.max_donation = max_donation],
             <<Write("contract")>>)

\* a panic discards every change of the call and refunds the attached deposit
near_commit(pre, out) == IF out.result = "Ok" THEN out.s ELSE pre

---------------------------------------------------------------------------
(* languages/ink and languages/rust-near: one action per message *)

\* the value attached to a payable call moves before the method runs; a
\* caller cannot attach more than it holds
attach(s, caller, amount) == system_transfer(s, caller, VAULT, amount)

Execute(v, op, caller, amount, other, max, out) ==
    LET post == IF v = "ink" THEN ink_commit(Store, out) ELSE near_commit(Store, out)
    IN  /\ variant = v
        /\ Accepting
        /\ contract' = post.contract
        /\ lamports' = post.lamports
        /\ made' = Count(op, out.result)
        /\ last' = Call(op, caller, amount, other, max, out.result)
        /\ before' = Storage
        /\ effects' = IF out.result = "Ok" THEN out.effects ELSE <<>>
        /\ moved' = IF out.result = "Ok" /\ op = "donate"
                    THEN [moved EXCEPT !.donors = @ \cup {caller}]
                    ELSE moved
        /\ UNCHANGED <<variant, overflow_checks, vault_state_init, vault_state,
                       donor_info_init, donor_info, reported, applied>>

PortAmounts == {0, 1, DOT, 100000, 100001}
PortLimitPairs == {<<0, DOT>>, <<DOT, DOT>>, <<1, 100000>>, <<DOT, 10 * DOT>>}
PortWithdrawAmounts == {0, 1, lamports[VAULT], lamports[VAULT] + 1}

InkInitialize ==
    \E caller \in Keys, admin \in Keys \cup {ZERO_ACCOUNT_ID}, l \in PortLimitPairs :
        Execute("ink", "initialize", caller, l[1], admin, l[2],
                ink_initialize(Store, admin, l[1], l[2]))

InkDonate ==
    \E caller \in Keys, amount \in PortAmounts :
        /\ amount <= lamports[caller]
        /\ Execute("ink", "donate", caller, amount, NoKey, 0,
                   ink_donate(attach(Store, caller, amount), caller, amount))

InkWithdraw ==
    \E caller \in Keys, amount \in PortWithdrawAmounts, recipient \in Keys,
       transfer_ok \in BOOLEAN :
        Execute("ink", "withdraw", caller, amount, recipient, 0,
                ink_withdraw(Store, caller, amount, recipient, transfer_ok))

InkEmergencyWithdraw ==
    \E caller \in Keys, recipient \in Keys, transfer_ok \in BOOLEAN :
        Execute("ink", "emergency_withdraw", caller, 0, recipient, 0,
                ink_emergency_withdraw(Store, caller, recipient, transfer_ok))

InkPause ==
    \E caller \in Keys : Execute("ink", "pause", caller, 0, NoKey, 0, ink_pause(Store, caller))

InkUnpause ==
    \E caller \in Keys :
        Execute("ink", "unpause", caller, 0, NoKey, 0, ink_unpause(Store, caller))

NearInitialize ==
    \E caller \in Keys, admin \in Keys, l \in PortLimitPairs :
        Execute("near", "initialize", caller, l[1], admin, l[2],
                near_initialize(Store, admin, l[1], l[2]))

NearDonate ==
    \E donor \in Keys, amount \in PortAmounts :
        /\ amount <= lamports[donor]
        /\ Execute("near", "donate", donor, amount, NoKey, 0,
                   near_donate(attach(Store, donor, amount), donor, amount))

NearWithdraw ==
    \E caller \in Keys, amount \in PortWithdrawAmounts, recipient \in Keys :
        Execute("near", "withdraw", caller, amount, recipient, 0,
                near_withdraw(Store, caller, amount, recipient))

NearEmergencyWithdraw ==
    \E caller \in Keys, recipient \in Keys :
        Execute("near", "emergency_withdraw", caller, 0, recipient, 0,
                near_emergency_withdraw(Store, caller, recipient))

NearPause ==
    \E caller \in Keys :
        Execute("near", "pause", caller, 0, NoKey, 0, near_pause(Store, caller))

NearUnpause ==
    \E caller \in Keys :
        Execute("near", "unpause", caller, 0, NoKey, 0, near_unpause(Store, caller))

NearUpdateAdmin ==
    \E caller \in Keys, new_admin \in Keys \cup {SYSTEM_ACCOUNT} :
        Execute("near", "update_admin", caller, 0, new_admin, 0,
                near_update_admin(Store, caller, new_admin))

NearUpdateLimits ==
    \E caller \in Keys, l \in PortLimitPairs :
        Execute("near", "update_limits", caller, l[1], NoKey, l[2],
                near_update_limits(Store, caller, l[1], l[2]))

---------------------------------------------------------------------------
(* The deployed contract after construction *)

NoCall == Call("", NoKey, 0, NoKey, 0, "")

Init ==
    /\ variant \in {"anchor", "ink", "near"}
    /\ overflow_checks \in BOOLEAN
    /\ lamports = InitialLamports
    /\ vault_state_init = FALSE
    /\ vault_state = ZeroVaultState
    /\ donor_info_init = {}
    /\ donor_info = [d \in Keys |-> ZeroDonorInfo]
    /\ contract \in IF variant = "near" THEN {near_new(deployer) : deployer \in Keys}
                    ELSE {ink_new}
    /\ made = 0
    /\ last = NoCall
    /\ before = Storage
    /\ effects = <<>>
    /\ reported = <<>>
    /\ moved = NothingMoved
    /\ applied = NotApplied

Next ==
    \/ CallInitialize
    \/ CallDonate
    \/ CallWithdraw
    \/ CallWithdrawPartial
    \/ CallEmergencyWithdraw
    \/ CallUpdateAdmin
    \/ CallPause
    \/ CallUnpause
    \/ CallUpdateDonationLimits
    \/ CallRefundDonation
    \/ InkInitialize
    \/ InkDonate
    \/ InkWithdraw
    \/ InkEmergencyWithdraw
    \/ InkPause
    \/ InkUnpause
    \/ NearInitialize
    \/ NearDonate
    \/ NearWithdraw
    \/ NearEmergencyWithdraw
    \/ NearPause
    \/ NearUnpause
    \/ NearUpdateAdmin
    \/ NearUpdateLimits

Spec == Init /\ [][Next]_vars

---------------------------------------------------------------------------
(* The helper functions applied on their own, as the unit tests of the     *)
(* three crates call them: an argument pair is chosen, then the function   *)
(* is applied and its value recorded in `applied`.  calculate_tier and its *)
(* ports are applied to both arguments; check_milestone_reached and donate *)
(* take them as previous_total and new_total.                              *)

TIERS == {TIER_BRONZE, TIER_SILVER, TIER_GOLD, TIER_PLATINUM}
PORT_TIERS == {DOT \div 100, DOT \div 10, DOT, 10 * DOT}
MILESTONE_SET == {MILESTONES[i] : i \in DOMAIN MILESTONES}

\* 0, the largest value of the type, and the values around each threshold
Around(thresholds) ==
    {0, U64_MAX} \cup
    {v \in {th + d : th \in thresholds, d \in (0 - Margin) .. Margin} : v >= 0}

\* the comparisons of check_milestone_reached do not depend on the width,
\* so its arguments range over all four milestones
HelperCalls(v) ==
    IF v = "ink"
    THEN [f : {"calculate_tier_value"}, x : Around(PORT_TIERS), y : Around(PORT_TIERS),
          value : {<<>>}]
    ELSE IF v = "near"
    THEN [f : {"calculate_tier"}, x : Around(PORT_TIERS), y : Around(PORT_TIERS),
          value : {<<>>}]
    ELSE [f : {"calculate_tier"}, x : Around(TIERS), y : Around(TIERS), value : {<<>>}]
         \cup [f : {"check_milestone_reached"}, x : Around(MILESTONE_SET),
               y : Around(MILESTONE_SET), value : {<<>>}]
         \cup {c \in [f : {"donate"}, x : Around(MILESTONE_SET) \ {U64_MAX},
                      y : Around(MILESTONE_SET), value : {<<>>}] :
                  c.x < c.y /\ c.x <= U64_MAX /\ c.y - c.x <= U64_MAX}

\* a vault that has taken previous_total from k2 under limits that admit
\* any amount, and a donor k1 who holds `amount`
donate_accounts(previous_total, amount) ==
    LET n == IF previous_total = 0 THEN 0 ELSE 1
    IN  [vault_state_init |-> TRUE,
         vault_state |-> [ZeroVaultState EXCEPT !.admin = "k2",
                                                !.total_donated = previous_total,
                                                !.donation_count = n,
                                                !.unique_donors = n,
                                                !.min_donation_amount = 1,
                                                !.max_donation_amount = U64_MAX],
         donor_info_init |-> IF n = 0 THEN {} ELSE {"k2"},
         donor_info |-> [d \in Keys |->
                            IF d = "k2" /\ n = 1
                            THEN [total_donated |-> previous_total, donation_count |-> 1,
                                  last_donation_timestamp |-> 1,
                                  tier |-> calculate_tier(previous_total)]
                            ELSE ZeroDonorInfo],
         lamports |-> [a \in Accounts |->
                          IF a = VAULT THEN RentExemptMinimum + previous_total
                          ELSE IF a = "k1" THEN amount ELSE 0]]

Apply(v, f, value) ==
    /\ variant = v
    /\ applied.f = f
    /\ applied.value = <<>>
    /\ applied' = [applied EXCEPT !.value = value]
    /\ UNCHANGED <<variant, overflow_checks, lamports, vault_state_init, vault_state,
                   donor_info_init, donor_info, contract, made, last, before, effects,
                   reported, moved>>

ApplyCalculateTier ==
    Apply("anchor", "calculate_tier",
          <<calculate_tier(applied.x), calculate_tier(applied.y)>>)

ApplyCalculateTierValue ==
    Apply("ink", "calculate_tier_value",
          <<calculate_tier_value(applied.x), calculate_tier_value(applied.y)>>)

ApplyNearCalculateTier ==
    Apply("near", "calculate_tier",
          <<near_calculate_tier(applied.x), near_calculate_tier(applied.y)>>)

ApplyCheckMilestoneReached ==
    Apply("anchor", "check_milestone_reached",
          <<check_milestone_reached(applied.x, applied.y)>>)

ApplyDonate ==
    LET s == donate_accounts(applied.x, applied.y - applied.x)
        out == Donate(s, "k1", applied.y - applied.x, 1)
    IN  Apply("anchor", "donate",
              <<anchor_result(s, out), milestones_logged(out.effects)>>)

HelperInit ==
    /\ variant \in {"anchor", "ink", "near"}
    /\ overflow_checks = TRUE
    /\ lamports = InitialLamports
    /\ vault_state_init = FALSE
    /\ vault_state = ZeroVaultState
    /\ donor_info_init = {}
    /\ donor_info = [d \in Keys |-> ZeroDonorInfo]
    /\ contract = ink_new
    /\ made = 0
    /\ last = NoCall
    /\ before = Storage
    /\ effects = <<>>
    /\ reported = <<>>
    /\ moved = NothingMoved
    /\ applied \in HelperCalls(variant)

HelperNext ==
    \/ ApplyCalculateTier
    \/ ApplyCalculateTierValue
    \/ ApplyNearCalculateTier
    \/ ApplyCheckMilestoneReached
    \/ ApplyDonate

HelperSpec == HelperInit /\ [][HelperNext]_vars

---------------------------------------------------------------------------
(* Reading a call's outcome *)

\* The error kind of a result.  The three contracts name the same errors
\* differently (DonationError, the ink Error enum, the NEAR panic messages);
\* a failed ledger transfer is TransferFailed whatever the host calls it.
Kind(result) ==
    CASE result \in {"NotAdmin", "Only admin can call this function"} -> "Unauthorized"
      [] result \in {"Contract is paused", "Already paused"} -> "ContractPaused"
      [] result = "Not paused" -> "ContractNotPaused"
      [] result = "Already initialized" -> "AlreadyInitialized"
      [] result = "Not initialized" -> "NotInitialized"
      [] result = "Donation too small" -> "DonationTooSmall"
      [] result = "Donation too large" -> "DonationTooLarge"
      [] result \in {"InsufficientBalance", "Insufficient balance"} -> "InsufficientFunds"
      [] result = "Amount must be > 0" -> "InvalidAmount"
      [] result \in {"Minimum donation must be > 0", "Min must be > 0", "Max must be > min"}
            -> "InvalidLimits"
      [] result = "attempt to add with overflow" -> "Overflow"
      [] result \in {"ResultWithNegativeLamports", "ExternalAccountLamportSpend"}
            -> "TransferFailed"
      [] OTHER -> result

Succeeded == last.result = "Ok"
Failed == last.result \notin {"", "Ok"}

\* the vault's lifecycle state, admin and limits in a storage st
initialized_in(st) ==
    IF variant = "anchor" THEN st.vault_state_init ELSE st.contract.initialized
paused_in(st) ==
    /\ initialized_in(st)
    /\ IF variant = "anchor" THEN st.vault_state.is_paused ELSE st.contract.paused
active_in(st) == initialized_in(st) /\ ~paused_in(st)
admin_in(st) == IF variant = "anchor" THEN st.vault_state.admin ELSE st.contract.admin
min_in(st) ==
    IF variant = "anchor" THEN st.vault_state.min_donation_amount
    ELSE st.contract.min_donation
max_in(st) ==
    IF variant = "anchor" THEN st.vault_state.max_donation_amount
    ELSE st.contract.max_donation

AdminOnly ==
    {"withdraw", "withdraw_partial", "emergency_withdraw", "refund_donation", "pause",
     "unpause", "update_admin", "update_donation_limits", "update_limits"}

\* programs/donation: the accounts the last call named existed (the vault
\* state, and for a refund the donor's record); Anchor rejects the call
\* before the handler otherwise
AccountsExisted ==
    variant = "anchor" =>
        /\ before.vault_state_init
        /\ last.op = "refund_donation" => last.other \in before.donor_info_init

---------------------------------------------------------------------------
(* Claims *)

C3_RentFloor == variant = "anchor" => lamports[VAULT] >= RentExemptMinimum

\* a withdrawal that took the vault down to exactly the minimum
C3_Witness ==
    /\ variant = "anchor"
    /\ last.op \in {"withdraw", "withdraw_partial", "emergency_withdraw"}
    /\ Succeeded
    /\ before.lamports[VAULT] > RentExemptMinimum
    /\ lamports[VAULT] = RentExemptMinimum

\* C4: a donate submitted to a Paused vault fails with ContractPaused whatever
\* the amount and changes nothing; a successful pause of an initialized
\* vault leaves it Paused, and a Paused vault stays Paused until a successful
\* unpause: no donation is accepted in between.
C4_PausedRejectsDonate ==
    /\ (last.op = "donate" /\ paused_in(before))
          => Kind(last.result) = "ContractPaused" /\ Storage = before
    /\ (last.op = "pause" /\ Succeeded /\ initialized_in(before)) => paused_in(Storage)
    /\ (paused_in(before) /\ ~(last.op = "unpause" /\ Succeeded)) => paused_in(Storage)

\* a donation within the limits, from a donor who can pay it, refused by a
\* Paused vault
C4_Witness ==
    /\ last.op = "donate"
    /\ paused_in(before)
    /\ min_in(before) <= last.amount
    /\ last.amount <= max_in(before)
    /\ last.amount <= before.lamports[last.caller]
    /\ Kind(last.result) = "ContractPaused"

\* C5: the pause flag is read by none of the admin's operations.  In every
\* Paused state, each of withdraw, withdraw_partial, emergency_withdraw,
\* refund_donation, update_admin and update_donation_limits (ink, NEAR:
\* withdraw, emergency_withdraw, update_admin, update_limits), with every
\* caller and argument, returns the same result, has the same effects and
\* stores the same accounts as it does in the state that differs only in
\* being Active.  (A rejected call leaves the accounts as they were, so the
\* accounts of every reachable state are those of a state reached by an
\* accepted call or of the initial one.)
Unpaused(s) == [s EXCEPT !.vault_state.is_paused = FALSE]
SameOutcome(paused, active) ==
    /\ anchor_result(Accts, paused) = anchor_result(Unpaused(Accts), active)
    /\ paused.effects = active.effects
    /\ anchor_commit(Accts, paused).vault_state.is_paused
    /\ Unpaused(anchor_commit(Accts, paused)) = anchor_commit(Unpaused(Accts), active)

PortUnpaused(s) == [s EXCEPT !.contract.paused = FALSE]
PortSameOutcome(paused, active) ==
    /\ paused.result = active.result
    /\ paused.effects = active.effects
    /\ paused.s.contract.paused
    /\ PortUnpaused(paused.s) = active.s

C5_AnchorPauseNeverBlocksAdmin ==
    \A admin \in Keys, debit_ok \in BOOLEAN :
        /\ SameOutcome(Withdraw(Accts, admin, debit_ok),
                       Withdraw(Unpaused(Accts), admin, debit_ok))
        /\ \A amount \in WithdrawAmounts :
            /\ SameOutcome(WithdrawPartial(Accts, admin, amount, debit_ok),
                           WithdrawPartial(Unpaused(Accts), admin, amount, debit_ok))
            /\ SameOutcome(EmergencyWithdraw(Accts, admin, amount, debit_ok),
                           EmergencyWithdraw(Unpaused(Accts), admin, amount, debit_ok))
        /\ \A donor \in Keys : \A amount \in RefundAmounts(donor_info[donor].total_donated) :
            SameOutcome(RefundDonation(Accts, admin, donor, amount, debit_ok),
                        RefundDonation(Unpaused(Accts), admin, donor, amount, debit_ok))
        /\ \A new_admin \in Keys \cup {SYSTEM_PROGRAM_ID}, now \in Timestamps :
            SameOutcome(UpdateAdmin(Accts, admin, new_admin, now),
                        UpdateAdmin(Unpaused(Accts), admin, new_admin, now))
        /\ \A l \in LimitPairs :
            SameOutcome(UpdateDonationLimits(Accts, admin, l[1], l[2]),
                        UpdateDonationLimits(Unpaused(Accts), admin, l[1], l[2]))

C5_InkPauseNeverBlocksAdmin ==
    \A caller \in Keys, recipient \in Keys, transfer_ok \in BOOLEAN :
        /\ \A amount \in PortWithdrawAmounts :
            PortSameOutcome(
                ink_withdraw(Store, caller, amount, recipient, transfer_ok),
                ink_withdraw(PortUnpaused(Store), caller, amount, recipient, transfer_ok))
        /\ PortSameOutcome(
                ink_emergency_withdraw(Store, caller, recipient, transfer_ok),
                ink_emergency_withdraw(PortUnpaused(Store), caller, recipient, transfer_ok))

C5_NearPauseNeverBlocksAdmin ==
    \A caller \in Keys, recipient \in Keys :
        /\ \A amount \in PortWithdrawAmounts :
            PortSameOutcome(near_withdraw(Store, caller, amount, recipient),
                            near_withdraw(PortUnpaused(Store), caller, amount, recipient))
        /\ PortSameOutcome(near_emergency_withdraw(Store, caller, recipient),
                           near_emergency_withdraw(PortUnpaused(Store), caller, recipient))
        /\ PortSameOutcome(near_update_admin(Store, caller, recipient),
                           near_update_admin(PortUnpaused(Store), caller, recipient))
        /\ \A l \in PortLimitPairs :
            PortSameOutcome(near_update_limits(Store, caller, l[1], l[2]),
                            near_update_limits(PortUnpaused(Store), caller, l[1], l[2]))

C5_PauseNeverBlocksAdmin ==
    (paused_in(Storage) /\ last.result \in {"", "Ok"}) =>
        CASE variant = "anchor" -> C5_AnchorPauseNeverBlocksAdmin
          [] variant = "ink" -> C5_InkPauseNeverBlocksAdmin
          [] variant = "near" -> C5_NearPauseNeverBlocksAdmin

\* the admin was paid a refund out of a Paused vault, which stayed Paused
C5_Witness ==
    /\ variant = "anchor"
    /\ paused_in(before)
    /\ paused_in(Storage)
    /\ last.op = "refund_donation"
    /\ last.caller = admin_in(before)
    /\ Succeeded

\* C6: on an Active vault a donate below the configured minimum fails with
\* DonationTooSmall and one above the configured maximum with
\* DonationTooLarge; one within the limits, both inclusive, is accepted when
\* the donor can pay it, unless a total would overflow, and fails with
\* TransferFailed when the donor cannot.  The limits are the stored ones,
\* as initialize or the last update_donation_limits left them.
C6_DonateWithinLimits ==
    (last.op = "donate" /\ active_in(before)) =>
        /\ last.amount < min_in(before) => Kind(last.result) = "DonationTooSmall"
        /\ last.amount > max_in(before) => Kind(last.result) = "DonationTooLarge"
        /\ (min_in(before) <= last.amount /\ last.amount <= max_in(before)) =>
              IF last.amount <= before.lamports[last.caller]
              THEN Succeeded \/ Kind(last.result) = "Overflow"
              ELSE Kind(last.result) = "TransferFailed"
        /\ Succeeded => min_in(before) <= last.amount /\ last.amount <= max_in(before)

\* after update_donation_limits changed the maximum, a donation of exactly
\* the new maximum was accepted
C6_Witness ==
    /\ variant = "anchor"
    /\ last.op = "donate"
    /\ active_in(before)
    /\ max_in(before) # DEFAULT_MAX_DONATION
    /\ last.amount = max_in(before)
    /\ Succeeded

\* C7 (programs/donation): a successful donate(amount) by donor d adds
\* exactly amount to vault_state.total_donated, to d's total_donated and to
\* the vault's balance, and exactly 1 to vault_state.donation_count and to
\* d's donation_count.
C7_DonateAddsExactly ==
    (variant = "anchor" /\ last.op = "donate" /\ Succeeded) =>
        LET d == last.caller
        IN  /\ vault_state.total_donated = before.vault_state.total_donated + last.amount
            /\ donor_info[d].total_donated = before.donor_info[d].total_donated + last.amount
            /\ lamports[VAULT] = before.lamports[VAULT] + last.amount
            /\ lamports[d] = before.lamports[d] - last.amount
            /\ vault_state.donation_count = before.vault_state.donation_count + 1
            /\ donor_info[d].donation_count = before.donor_info[d].donation_count + 1

\* a donor's second donation
C7_Witness ==
    /\ variant = "anchor"
    /\ last.op = "donate"
    /\ Succeeded
    /\ last.amount > 0
    /\ before.donor_info[last.caller].donation_count = 1
    /\ before.vault_state.total_donated > 0

\* C8: pause called by the admin on a Paused vault fails with ContractPaused
\* and leaves the vault Paused.
C8_PauseWhilePausedFails ==
    (last.op = "pause" /\ last.caller = admin_in(before) /\ paused_in(before)) =>
        Kind(last.result) = "ContractPaused" /\ paused_in(Storage)

\* C9: unpause called by the admin on an Active vault fails with
\* ContractNotPaused and leaves the vault Active.
C9_UnpauseWhileActiveFails ==
    (last.op = "unpause" /\ last.caller = admin_in(before) /\ active_in(before)) =>
        Kind(last.result) = "ContractNotPaused" /\ active_in(Storage)

counters_zero_in(st) ==
    IF variant = "anchor"
    THEN /\ st.vault_state.total_donated = 0
         /\ st.vault_state.total_withdrawn = 0
         /\ st.vault_state.donation_count = 0
         /\ st.vault_state.unique_donors = 0
    ELSE /\ st.contract.total_donations = 0
         /\ st.contract.donor_count = 0

\* C11: after a successful initialize the vault's admin is the caller of
\* initialize, its totals and counters (total_donated, total_withdrawn,
\* donation_count, unique_donors) are zero, the pause flag is clear and the
\* vault is Active.
C11_InitializeResult ==
    (last.op = "initialize" /\ Succeeded) =>
        /\ admin_in(Storage) = last.caller
        /\ counters_zero_in(Storage)
        /\ ~(IF variant = "anchor" THEN vault_state.is_paused ELSE contract.paused)
        /\ active_in(Storage)

\* the operations that take a pair of limits as arguments
SetsLimits ==
    \/ last.op \in {"update_donation_limits", "update_limits"}
    \/ last.op = "initialize" /\ variant # "anchor"

\* C12: an initialized vault always has 0 < min_donation < max_donation;
\* initialize and update_donation_limits (update_limits) reject a pair with
\* min = 0 or max <= min and change nothing; the limits are changed by a
\* successful initialize or update of the limits and by no other operation.
C12_LimitsOrdered ==
    /\ initialized_in(Storage) =>
          0 < min_in(Storage) /\ min_in(Storage) < max_in(Storage)
    /\ (SetsLimits /\ (last.amount = 0 \/ last.max <= last.amount)) =>
          Failed /\ Storage = before
    /\ (min_in(Storage) # min_in(before) \/ max_in(Storage) # max_in(before)) =>
          /\ last.op \in {"initialize", "update_donation_limits", "update_limits"}
          /\ Succeeded

\* the admin of an initialized vault asks for max = min > 0 and is refused
C12_Witness ==
    /\ last.op \in {"update_donation_limits", "update_limits"}
    /\ initialized_in(before)
    /\ last.caller = admin_in(before)
    /\ last.amount > 0
    /\ last.max = last.amount
    /\ Kind(last.result) \in {"InvalidAmount", "InvalidLimits"}

\* C13: in every reachable state the tier stored in each donor record is
\* calculate_tier of the record's total_donated; the stored tier changes
\* only in a successful donate of that donor or a successful refund to that
\* donor, which recompute it.
C13_TierMatchesTotal ==
    variant = "anchor" =>
        /\ \A d \in donor_info_init :
              donor_info[d].tier = calculate_tier(donor_info[d].total_donated)
        /\ \A d \in Keys :
              donor_info[d].tier # before.donor_info[d].tier =>
                  /\ Succeeded
                  /\ \/ last.op = "donate" /\ last.caller = d
                     \/ last.op = "refund_donation" /\ last.other = d

\* a refund has taken a donor's total below a threshold and lowered the tier
C13_Witness ==
    /\ variant = "anchor"
    /\ last.op = "refund_donation"
    /\ Succeeded
    /\ before.donor_info[last.other].tier = "Gold"
    /\ donor_info[last.other].tier = "Silver"
    /\ donor_info[last.other].total_donated = TIER_GOLD - 1

\* a tier function has been applied to applied.x and applied.y
TierApplied ==
    /\ applied.f \in {"calculate_tier", "calculate_tier_value"}
    /\ applied.value # <<>>

\* the order of the tiers: enum DonorTier (None first where the port has
\* it); the ink port returns the rank itself
tier_rank(tier) ==
    IF variant = "ink" THEN tier
    ELSE CASE tier = "None" -> 0
           [] tier = "Bronze" -> 1
           [] tier = "Silver" -> 2
           [] tier = "Gold" -> 3
           [] tier = "Platinum" -> 4

\* C14: the tier function is monotonic: whenever a1 <= a2, the tier of a1
\* is not above the tier of a2 in the order None < Bronze < Silver < Gold <
\* Platinum (calculate_tier of programs/donation, calculate_tier_value of
\* ink, calculate_tier of NEAR).
C14_TierMonotonic ==
    (TierApplied /\ applied.x <= applied.y) =>
        tier_rank(applied.value[1]) <= tier_rank(applied.value[2])

\* one unit below the Gold threshold and the threshold itself get
\* different tiers
C14_Witness ==
    /\ TierApplied
    /\ variant = "anchor"
    /\ applied.x = TIER_GOLD - 1
    /\ applied.y = TIER_GOLD
    /\ applied.value = <<"Silver", "Gold">>

\* programs/donation: calculate_tier gives `tier` at the threshold th and
\* `below` one unit under it
InclusiveAt(th, tier, below) ==
    /\ applied.x = th => applied.value[1] = tier
    /\ applied.x = th - 1 => applied.value[1] = below

\* C15: the tier thresholds are inclusive lower bounds: the tier of T is
\* the tier of that threshold and the tier of T - 1 is the tier immediately
\* below, for T_silver, T_gold and T_platinum; and an amount is Bronze only
\* if it is at least T_bronze.
C15_ThresholdsInclusive ==
    (variant = "anchor" /\ TierApplied) =>
        /\ InclusiveAt(TIER_SILVER, "Silver", "Bronze")
        /\ InclusiveAt(TIER_GOLD, "Gold", "Silver")
        /\ InclusiveAt(TIER_PLATINUM, "Platinum", "Gold")
        /\ applied.value[1] = "Bronze" => applied.x >= TIER_BRONZE

\* C16: in the ink and NEAR contracts the tier function maps 0 to None and
\* unit/100, unit/10, unit and 10 * unit to Bronze, Silver, Gold and
\* Platinum (unit = 1 DOT, 1 NEAR); below unit/100 the tier is None, and any
\* other amount gets the tier of the highest threshold it reaches.
C16_PortTiers ==
    (variant \in {"ink", "near"} /\ TierApplied) =>
        LET unit == IF variant = "ink" THEN DOT ELSE NEAR
            amount == applied.x
            rank == tier_rank(applied.value[1])
            reached == {th \in {unit \div 100, unit \div 10, unit, 10 * unit} :
                          th <= amount}
        IN  /\ amount = 0 => rank = 0
            /\ amount = unit \div 100 => rank = 1
            /\ amount = unit \div 10 => rank = 2
            /\ amount = unit => rank = 3
            /\ amount = 10 * unit => rank = 4
            /\ amount < unit \div 100 => rank = 0
            /\ rank = Cardinality(reached)

\* an amount just below unit/100 and an amount between unit/10 and unit
C16_Witness ==
    /\ TierApplied
    /\ variant = "near"
    /\ applied.x = NEAR \div 100 - 1
    /\ applied.x > 0
    /\ applied.y = NEAR \div 10 + 1
    /\ applied.value = <<"None", "Silver">>

\* the smallest milestone m with previous_total < m <= new_total, if any
lowest_crossed(previous_total, new_total) ==
    LET crossed == {m \in MILESTONE_SET : previous_total < m /\ m <= new_total}
    IN  IF crossed = {} THEN None
        ELSE Some(CHOOSE m \in crossed : \A n \in crossed : m <= n)

\* C17: check_milestone_reached(previous_total, new_total) returns the
\* smallest milestone m with previous_total < m <= new_total and none when
\* there is no such milestone; a successful donate that takes the vault's
\* total from previous_total to new_total emits one MilestoneReachedEvent,
\* for that smallest milestone, however many milestones it crosses, and none
\* when it crosses none.
C17_LowestMilestone ==
    LET lowest == lowest_crossed(applied.x, applied.y)
    IN  /\ (applied.f = "check_milestone_reached" /\ applied.value # <<>>) =>
              applied.value[1] = lowest
        /\ (applied.f = "donate" /\ applied.value # <<>> /\ applied.value[1] = "Ok") =>
              applied.value[2] = IF lowest = None THEN <<>> ELSE <<lowest[1]>>

\* one donation takes the total from just under 1 SOL to 100 SOL, crossing
\* three milestones, and announces the 1 SOL milestone only
C17_Witness ==
    /\ applied.f = "donate"
    /\ applied.x = MILESTONE_1_SOL - 1
    /\ applied.y = MILESTONE_100_SOL
    /\ applied.value = <<"Ok", <<MILESTONE_1_SOL>>>>

\* how many MilestoneReachedEvent were logged for the milestone m
times_reported(m) == Cardinality({i \in DOMAIN reported : reported[i] = m})

\* the milestones announced by the last call
announced == milestones_logged(effects)

\* C18: over any sequence of operations each milestone is announced by at
\* most one MilestoneReachedEvent; a donate announces a milestone only if
\* the vault's total was below it before the call, so once total_donated
\* has reached a milestone no later donate announces it.
C18_MilestoneOnce ==
    variant = "anchor" =>
        /\ \A m \in MILESTONE_SET : times_reported(m) <= 1
        /\ \A i \in DOMAIN announced :
              /\ last.op = "donate"
              /\ before.vault_state.total_donated < announced[i]
              /\ vault_state.total_donated >= announced[i]

\* a donate on a vault whose total is past the 1 SOL milestone, already
\* announced, announces nothing
C18_Witness ==
    /\ variant = "anchor"
    /\ last.op = "donate"
    /\ Succeeded
    /\ before.vault_state.total_donated >= MILESTONE_1_SOL
    /\ reported = <<MILESTONE_1_SOL>>
    /\ announced = <<>>

\* C19 as stated: for every milestone m that vault.total_donated has
\* reached, exactly one MilestoneReachedEvent for m has been emitted.
C19_EveryMilestoneAnnounced ==
    variant = "anchor" =>
        \A m \in MILESTONE_SET :
            vault_state.total_donated >= m => times_reported(m) = 1

\* C19, amended: a milestone is announced at most once and never before
\* vault.total_donated has reached it; the call that takes the total from
\* below a milestone m to m or beyond announces m exactly when no lower
\* milestone is crossed by the same call, so the lowest milestone has been
\* announced exactly once as soon as the total has reached it, while a
\* milestone crossed together with a lower one is never announced.
C19_MilestoneAnnouncedIfLowest ==
    variant = "anchor" =>
        /\ \A m \in MILESTONE_SET :
              /\ times_reported(m) <= 1
              /\ times_reported(m) = 1 => vault_state.total_donated >= m
              /\ (before.vault_state.total_donated < m /\ vault_state.total_donated >= m) =>
                    /\ times_reported(m) =
                          IF \E n \in MILESTONE_SET :
                                n < m /\ before.vault_state.total_donated < n
                          THEN 0 ELSE 1
                    /\ Len(announced) = 1
              /\ (before.vault_state.total_donated >= m /\ last.op # "") =>
                    \A i \in DOMAIN announced : announced[i] # m
        /\ vault_state.total_donated >= MILESTONES[1] => times_reported(MILESTONES[1]) = 1

\* one donation took the total from below 1 SOL past 10 SOL: the 1 SOL
\* milestone was announced, the 10 SOL milestone was not and never will be
C19_Witness ==
    /\ variant = "anchor"
    /\ last.op = "donate"
    /\ before.vault_state.total_donated < MILESTONE_1_SOL
    /\ vault_state.total_donated >= MILESTONE_10_SOL
    /\ announced = <<MILESTONE_1_SOL>>
    /\ times_reported(MILESTONE_10_SOL) = 0

\* C20 (programs/donation): a successful withdraw is the admin's, moves
\* exactly the vault balance less the rent-exempt minimum from the vault to
\* the admin and to nobody else, and leaves the vault with exactly the
\* minimum; a withdraw by the admin of a vault whose balance is not above
\* the minimum fails with InsufficientFunds and changes nothing.
C20_WithdrawTakesAllAboveFloor ==
    (variant = "anchor" /\ last.op = "withdraw") =>
        LET withdrawable == before.lamports[VAULT] - RentExemptMinimum
        IN  /\ Succeeded =>
                  /\ last.caller = before.vault_state.admin
                  /\ withdrawable > 0
                  /\ lamports[VAULT] = RentExemptMinimum
                  /\ lamports[last.caller] = before.lamports[last.caller] + withdrawable
                  /\ \A a \in Accounts \ {VAULT, last.caller} :
                        lamports[a] = before.lamports[a]
                  /\ effects[1] = Transfer(VAULT, last.caller, withdrawable)
            /\ (before.vault_state_init /\ last.caller = before.vault_state.admin
                   /\ withdrawable <= 0) =>
                  last.result = "InsufficientFunds" /\ Storage = before

\* the admin withdraws from a vault that holds one Gold-sized donation
C20_Witness ==
    /\ variant = "anchor"
    /\ last.op = "withdraw"
    /\ Succeeded
    /\ before.lamports[VAULT] = RentExemptMinimum + TIER_GOLD
    /\ lamports[last.caller] = before.lamports[last.caller] + TIER_GOLD

\* programs/donation: the last call was `op`, signed by the admin of an
\* existing vault
AdminCalled(op) ==
    /\ variant = "anchor"
    /\ last.op = op
    /\ before.vault_state_init
    /\ last.caller = before.vault_state.admin

\* the failures a call that passed the handler's own checks can still meet:
\* the host refuses the lamport movement, or an addition overflows
HostFailure ==
    Kind(last.result) \in {"TransferFailed", "Overflow", "Panic", "UnbalancedInstruction"}

\* the last call moved exactly `amount` from the vault to `to`, nothing else
Moved(amount, to) ==
    /\ lamports[VAULT] = before.lamports[VAULT] - amount
    /\ lamports[to] = before.lamports[to] + amount
    /\ \A a \in Accounts \ {VAULT, to} : lamports[a] = before.lamports[a]

\* C21: withdraw_partial(amount) by the admin succeeds only when 0 < amount
\* <= vault balance - rent-exempt minimum, and does succeed then unless the
\* host fails the call; it then moves exactly amount to the admin.  With
\* amount = 0 it fails with InvalidAmount, and with any amount above the
\* withdrawable amount it fails with InsufficientFunds and changes nothing.
C21_WithdrawPartial ==
    AdminCalled("withdraw_partial") =>
        LET withdrawable == before.lamports[VAULT] - RentExemptMinimum
        IN  /\ Succeeded =>
                  /\ 0 < last.amount /\ last.amount <= withdrawable
                  /\ Moved(last.amount, last.caller)
            /\ (0 < last.amount /\ last.amount <= withdrawable) =>
                  Succeeded \/ (HostFailure /\ Storage = before)
            /\ last.amount = 0 => last.result = "InvalidAmount"
            /\ last.amount > withdrawable =>
                  last.result = "InsufficientFunds" /\ Storage = before

\* two calls submitted in the current state end alike: same result, and the
\* same accounts stored (balances, total_withdrawn and everything else)
SameResultAndAccounts(a, b) ==
    /\ anchor_result(Accts, a) = anchor_result(Accts, b)
    /\ anchor_commit(Accts, a) = anchor_commit(Accts, b)

\* C22 (programs/donation): in every reachable state, for every signer and
\* either answer of the host, emergency_withdraw(0) ends as withdraw does
\* (same success or error, same vault balance, admin balance and
\* total_withdrawn), and emergency_withdraw(a) with a > 0 ends as
\* withdraw_partial(a) does.  (A rejected call leaves the accounts as they
\* were, so the accounts of every reachable state are those of a state
\* reached by a successful call or of the initial one.)
C22_EmergencyWithdrawAsWithdraw ==
    (variant = "anchor" /\ last.result \in {"", "Ok"}) =>
        \A admin \in Keys, debit_ok \in BOOLEAN :
            /\ SameResultAndAccounts(EmergencyWithdraw(Accts, admin, 0, debit_ok),
                                     Withdraw(Accts, admin, debit_ok))
            /\ \A a \in WithdrawAmounts \ {0} :
                  SameResultAndAccounts(EmergencyWithdraw(Accts, admin, a, debit_ok),
                                        WithdrawPartial(Accts, admin, a, debit_ok))

\* emergency_withdraw(0) by the admin has emptied a funded vault down to
\* its minimum, as withdraw would have
C22_Witness ==
    /\ AdminCalled("emergency_withdraw")
    /\ last.amount = 0
    /\ Succeeded
    /\ before.lamports[VAULT] > RentExemptMinimum
    /\ Moved(before.lamports[VAULT] - RentExemptMinimum, last.caller)
    /\ anchor_result(before, Withdraw(before, last.caller, TRUE)) = "Ok"

\* programs/donation: the last call was a refund_donation signed by the
\* admin, naming a donor who has a record
AdminRefunded == AdminCalled("refund_donation") /\ last.other \in before.donor_info_init

C24_RefundEffect ==
    (variant = "anchor" /\ last.op = "refund_donation" /\ Succeeded) =>
        LET old == before.donor_info[last.other]
            new == donor_info[last.other]
        IN  /\ last.amount > 0
            /\ Moved(last.amount, last.other)
            /\ new.total_donated = old.total_donated - last.amount
            /\ new.total_donated >= 0
            /\ new.tier = calculate_tier(new.total_donated)
            /\ tier_rank(new.tier) <= tier_rank(old.tier)
            /\ new.donation_count = old.donation_count
            /\ new.last_donation_timestamp = old.last_donation_timestamp

\* a Gold donor is refunded everything: total 0, tier Bronze, still one
\* donation counted
C24_Witness ==
    /\ variant = "anchor"
    /\ last.op = "refund_donation"
    /\ Succeeded
    /\ last.amount = TIER_GOLD
    /\ before.donor_info[last.other].tier = "Gold"
    /\ donor_info[last.other] =
          [before.donor_info[last.other] EXCEPT !.total_donated = 0, !.tier = "Bronze"]
    /\ donor_info[last.other].donation_count = 1

\* C25 (programs/donation): a successful refund_donation leaves the vault
\* state as it was (total_donated, total_withdrawn, donation_count,
\* unique_donors, both limits, the pause flag and the admin); it changes the
\* refunded donor's record and the balances of the vault and of that donor,
\* and nothing else.
C25_RefundLeavesVaultState ==
    (variant = "anchor" /\ last.op = "refund_donation" /\ Succeeded) =>
        /\ vault_state = before.vault_state
        /\ vault_state_init = before.vault_state_init
        /\ donor_info_init = before.donor_info_init
        /\ \A d \in Keys \ {last.other} : donor_info[d] = before.donor_info[d]
        /\ donor_info[last.other] # before.donor_info[last.other]
        /\ \A a \in Accounts \ {VAULT, last.other} : lamports[a] = before.lamports[a]
        /\ lamports[VAULT] < before.lamports[VAULT]

\* after the refund the vault's total_donated is above the sum of the
\* donors' totals
C25_Witness ==
    /\ variant = "anchor"
    /\ last.op = "refund_donation"
    /\ Succeeded
    /\ vault_state.total_donated = before.donor_info[last.other].total_donated
    /\ vault_state.total_donated > 0
    /\ \A d \in Keys : donor_info[d].total_donated = 0

\* the identities nobody can sign for: the system program's id, which is
\* also Pubkey::default(); ink's all-zero AccountId; NEAR's system account
ReservedIdentities == {SYSTEM_PROGRAM_ID, PUBKEY_DEFAULT, ZERO_ACCOUNT_ID, SYSTEM_ACCOUNT}

\* C26: the admin of an initialized vault changes only by a successful
\* update_admin called by the current admin; update_admin called by the
\* admin with a null or system-reserved new_admin fails with InvalidAdmin
\* and changes nothing; so the admin of an initialized vault is never a
\* null or system-reserved identity.
C26_AdminOnlyByUpdateAdmin ==
    /\ (initialized_in(before) /\ admin_in(Storage) # admin_in(before)) =>
          /\ last.op = "update_admin"
          /\ Succeeded
          /\ last.caller = admin_in(before)
    /\ (last.op = "update_admin" /\ initialized_in(before)
          /\ last.caller = admin_in(before) /\ last.other \in ReservedIdentities) =>
          Kind(last.result) = "InvalidAdmin" /\ Storage = before
    /\ initialized_in(Storage) => admin_in(Storage) \notin ReservedIdentities

\* the vault's running totals and counters in a storage st
totals_in(st) ==
    IF variant = "anchor"
    THEN <<st.vault_state.total_donated, st.vault_state.total_withdrawn,
           st.vault_state.donation_count, st.vault_state.unique_donors>>
    ELSE <<st.contract.total_donations, st.contract.donor_count>>

\* C27: no call on an initialized vault lowers the vault's total_donated,
\* total_withdrawn, donation_count or unique_donors (total_donations and
\* donor_count in the ink and NEAR contracts).
C27_TotalsNeverDecrease ==
    initialized_in(before) =>
        \A i \in DOMAIN totals_in(Storage) : totals_in(Storage)[i] >= totals_in(before)[i]

\* a withdrawal has raised total_withdrawn of a vault that had already paid
\* out once, and the other three counters are positive
C27_Witness ==
    /\ variant = "anchor"
    /\ Succeeded
    /\ before.vault_state.total_withdrawn > 0
    /\ vault_state.total_withdrawn > before.vault_state.total_withdrawn
    /\ vault_state.total_donated > 0
    /\ vault_state.donation_count > 0
    /\ vault_state.unique_donors > 0

\* what the donor `d` has given according to a storage st
donor_total_in(st, d) ==
    IF variant = "anchor" THEN st.donor_info[d].total_donated
    ELSE Get(st.contract.donor_amounts, d)

\* the last call was a donate that passed pause and limit checks and that
\* the donor could pay
DonateAdmitted ==
    /\ last.op = "donate"
    /\ active_in(before)
    /\ min_in(before) <= last.amount
    /\ last.amount <= max_in(before)
    /\ before.lamports[last.caller] >= last.amount

\* adding the last call's amount takes a total, or adding 1 a counter, out
\* of its integer range
DonateOverflows ==
    \/ totals_in(before)[1] + last.amount > U64_MAX
    \/ donor_total_in(before, last.caller) + last.amount > U64_MAX
    \/ /\ variant = "anchor"
       /\ \/ before.vault_state.donation_count + 1 > U64_MAX
          \/ before.donor_info[last.caller].donation_count + 1 > U64_MAX
          \/ before.vault_state.unique_donors + 1 > U64_MAX

\* C28: a donate whose amount would take the vault's total, the donor's
\* total or a donation counter out of its integer range fails with Overflow
\* and is rolled back entirely; an accepted donate adds exactly its amount
\* to the vault's total and to the donor's, so the stored totals never wrap
\* and never stop short of an accepted donation.
C28_DonateOverflowFails ==
    /\ (DonateAdmitted /\ DonateOverflows) =>
          Kind(last.result) = "Overflow" /\ Storage = before
    /\ (last.op = "donate" /\ Succeeded) =>
          /\ totals_in(Storage)[1] = totals_in(before)[1] + last.amount
          /\ donor_total_in(Storage, last.caller) =
                donor_total_in(before, last.caller) + last.amount

\* how many events named `event` the last call emitted
emitted(event) ==
    Cardinality({i \in DOMAIN effects :
                   effects[i].effect = "emit" /\ effects[i].event = event})

\* the last call took the vault's total across one of the milestones
MilestoneCrossed ==
    \E i \in DOMAIN MILESTONES :
        /\ before.vault_state.total_donated < MILESTONES[i]
        /\ vault_state.total_donated >= MILESTONES[i]

\* the last call changed the tier of a donor who had donated before
ReturningDonorChangedTier ==
    /\ donor_info[last.caller].tier # before.donor_info[last.caller].tier
    /\ before.donor_info[last.caller].donation_count >= 1

\* C29: a successful donate emits exactly one DonationEvent; it emits a
\* TierUpgradeEvent exactly when the donor's tier after the call differs from
\* the one before and the donor had donated before (never for a first
\* donation); it emits a MilestoneReachedEvent exactly when the vault's
\* total crossed a milestone.
C29_DonateNotifications ==
    (variant = "anchor" /\ last.op = "donate" /\ Succeeded) =>
        /\ emitted("DonationEvent") = 1
        /\ emitted("TierUpgradeEvent") = (IF ReturningDonorChangedTier THEN 1 ELSE 0)
        /\ emitted("MilestoneReachedEvent") = (IF MilestoneCrossed THEN 1 ELSE 0)

\* a returning donor's donation that changes the tier and crosses a
\* milestone, after a first donation that reached a tier without an upgrade
\* event
C29_Witness ==
    /\ variant = "anchor" /\ last.op = "donate" /\ Succeeded
    /\ ReturningDonorChangedTier /\ MilestoneCrossed
    /\ emitted("DonationEvent") = 1
    /\ emitted("TierUpgradeEvent") = 1
    /\ emitted("MilestoneReachedEvent") = 1

\* the operations that move funds into or out of the vault
ValueMoving ==
    {"donate", "withdraw", "withdraw_partial", "emergency_withdraw", "refund_donation"}

\* the steps of the last call came in the order transfer, write, emit
TransferWriteEmit ==
    \A i, j \in DOMAIN effects :
        /\ (effects[i].effect = "transfer" /\ effects[j].effect \in {"write", "emit"})
              => i < j
        /\ (effects[i].effect = "write" /\ effects[j].effect = "emit") => i < j

\* C30: every value-moving operation runs validate, transfer, mutate state,
\* notify in this order: no account or storage write precedes the ledger
\* transfer, and no event is emitted before the last write of the call.
C30_TransferMutateNotify ==
    (last.op \in ValueMoving /\ Succeeded) => TransferWriteEmit

\* the counter of distinct donors in the storage of the deployed contract
unique_donors_in(st) ==
    IF variant = "anchor" THEN st.vault_state.unique_donors ELSE st.contract.donor_count

\* C31: the counter of unique donors equals the number of distinct
\* identities that have made a successful donation; it grows by exactly 1
\* with a donor's first successful donate and changes with no other call,
\* a donate by a donor whose total refunds brought back to zero included.
C31_UniqueDonorsCounted ==
    unique_donors_in(Storage) = Cardinality(moved.donors)

\* a donor whose total refunds had brought back to zero donates again and
\* is still counted once
C31_Witness ==
    /\ variant = "anchor" /\ last.op = "donate" /\ Succeeded
    /\ moved.refunded[last.caller] > 0
    /\ before.donor_info[last.caller].total_donated = 0
    /\ vault_state.unique_donors = 1

\* two donate instructions processed one after the other on the accounts s:
\* whether both succeeded, and the accounts they left
DonateTwice(s, d1, a1, t1, d2, a2, t2) ==
    LET r1 == Donate(s, d1, a1, t1)
        s1 == anchor_commit(s, r1)
        r2 == Donate(s1, d2, a2, t2)
    IN  [ok |-> anchor_result(s, r1) = "Ok" /\ anchor_result(s1, r2) = "Ok",
         s |-> anchor_commit(s1, r2)]

\* the accounts s2 hold what the accounts s0 held plus the donations of a1
\* by d1 and of a2 by d2: vault total and count, every donor's total and count
BothDonationsCounted(s0, s2, d1, a1, d2, a2) ==
    /\ s2.vault_state.total_donated = s0.vault_state.total_donated + a1 + a2
    /\ s2.vault_state.donation_count = s0.vault_state.donation_count + 2
    /\ \A d \in Keys :
          /\ s2.donor_info[d].total_donated =
                s0.donor_info[d].total_donated
                    + (IF d = d1 THEN a1 ELSE 0) + (IF d = d2 THEN a2 ELSE 0)
          /\ s2.donor_info[d].donation_count =
                s0.donor_info[d].donation_count
                    + (IF d = d1 THEN 1 ELSE 0) + (IF d = d2 THEN 1 ELSE 0)

\* the last call was a successful donate of programs/donation
Donated == variant = "anchor" /\ last.op = "donate" /\ Succeeded

\* C32 (programs/donation): two donate instructions for the same vault, by
\* the same donor or by two donors, processed in either order: when both
\* succeed, the vault's total_donated and donation_count and every donor's
\* total_donated and donation_count are the initial values plus the
\* contributions of both, whatever the order.  The first donate is the call
\* just processed, the second any donate submitted next; the opposite order
\* is processed on the accounts the first one found.
C32_DonationsSerialized ==
    Donated =>
        \A d2 \in Keys, a2 \in DonateAmounts, t2 \in Timestamps :
            LET d1 == last.caller
                a1 == last.amount
                t1 == donor_info[d1].last_donation_timestamp
                second == Donate(Accts, d2, a2, t2)
                opposite == DonateTwice(before, d2, a2, t2, d1, a1, t1)
            IN  /\ anchor_result(Accts, second) = "Ok" =>
                      BothDonationsCounted(before, anchor_commit(Accts, second),
                                           d1, a1, d2, a2)
                /\ opposite.ok =>
                      BothDonationsCounted(before, opposite.s, d1, a1, d2, a2)

\* after one donor's donation the other donor, and the same donor again,
\* can donate, and the two donations succeed in the opposite order as well
C32_Witness ==
    /\ Donated
    /\ \A d2 \in Keys : \E a2 \in DonateAmounts \ {0}, t2 \in Timestamps :
          /\ anchor_result(Accts, Donate(Accts, d2, a2, t2)) = "Ok"
          /\ DonateTwice(before, d2, a2, t2, last.caller, last.amount, t2).ok

\* the donor a donate or refund_donation call concerns
concerned ==
    IF last.op = "refund_donation" THEN last.other ELSE last.caller

\* C33: a donate or refund_donation that concerns donor d leaves the record
\* of every other donor as it was: total_donated, donation_count,
\* last_donation_timestamp and tier (and whether the record exists); in the
\* ink and NEAR contracts, the amount stored for every other donor.
C33_OtherDonorsUntouched ==
    last.op \in {"donate", "refund_donation"} =>
        \A d \in Keys \ {concerned} :
            /\ donor_info[d] = before.donor_info[d]
            /\ (d \in donor_info_init) = (d \in before.donor_info_init)
            /\ donor_total_in(Storage, d) = donor_total_in(before, d)

\* a donor was refunded while another donor's record held a donation
C33_Witness ==
    /\ variant = "anchor" /\ last.op = "refund_donation" /\ Succeeded
    /\ donor_info[last.other].total_donated < before.donor_info[last.other].total_donated
    /\ \E d \in Keys \ {last.other} :
          donor_info[d].total_donated > 0 /\ donor_info[d].donation_count > 0

\* the operations that test the vault balance against amount + rent-exempt
\* minimum
SufficiencyChecked == {"withdraw_partial", "emergency_withdraw", "refund_donation"}

\* C34 (programs/donation): for every amount with amount + rent-exempt
\* minimum beyond the 64-bit range, withdraw_partial, emergency_withdraw and
\* refund_donation fail and leave every balance and account as it was; the
\* check is never passed with a wrapped sum.
C34_SufficiencyChecksNeverWrap ==
    (variant = "anchor" /\ last.op \in SufficiencyChecked
        /\ last.amount + RentExemptMinimum > U64_MAX) =>
        Failed /\ Storage = before

\* the withdrawals to the admin
Withdrawals == {"withdraw", "withdraw_partial", "emergency_withdraw"}

\* C35 (programs/donation): total_withdrawn equals the sum of the amounts
\* moved from the vault to the admin by the successful withdraw,
\* withdraw_partial and emergency_withdraw calls; each of them adds exactly
\* the amount it moved, and a refund adds nothing.
C35_TotalWithdrawnIsSum ==
    variant = "anchor" =>
        /\ vault_state.total_withdrawn = moved.withdrawn
        /\ (last.op \in Withdrawals /\ Succeeded) =>
              LET paid == vault_state.total_withdrawn - before.vault_state.total_withdrawn
              IN  Moved(paid, last.caller)
        /\ last.op = "refund_donation" =>
              vault_state.total_withdrawn = before.vault_state.total_withdrawn

\* whether the vault is Paused once `caller` has called pause on an Active
\* vault, or unpause on a Paused one, in the current state
paused_after_toggle(caller) ==
    CASE variant = "anchor" ->
            LET out == IF vault_state.is_paused THEN Unpause(Accts, caller)
                       ELSE Pause(Accts, caller)
            IN  anchor_commit(Accts, out).vault_state.is_paused
      [] variant = "ink" ->
            LET out == IF contract.paused THEN ink_unpause(Store, caller)
                       ELSE ink_pause(Store, caller)
            IN  ink_commit(Store, out).contract.paused
      [] variant = "near" ->
            LET out == IF contract.paused THEN near_unpause(Store, caller)
                       ELSE near_pause(Store, caller)
            IN  near_commit(Store, out).contract.paused

pause_flag_in(st) ==
    IF variant = "anchor" THEN st.vault_state.is_paused ELSE st.contract.paused

\* admin, limits, pause flag and totals of a storage st
configuration_in(st) ==
    <<admin_in(st), min_in(st), max_in(st), pause_flag_in(st), totals_in(st)>>

\* C37: while the vault is Uninitialized every operation other than
\* initialize fails, whoever calls it, and leaves admin, limits, pause flag
\* and totals as they were.
C37_NothingBeforeInitialize ==
    (~initialized_in(before) /\ last.op \notin {"", "initialize"}) =>
        /\ Failed
        /\ configuration_in(Storage) = configuration_in(before)

donors_total == SumOver([d \in Keys |-> donor_info[d].total_donated], Keys)

\* the lamports refunded so far, to whomever
refunded_total == SumOver(moved.refunded, Keys)

\* C39 (programs/donation): the sum of the donors' total_donated is at most
\* the vault's total_donated, and the vault's total_donated equals that sum
\* plus everything refunded so far; the two are equal exactly when no
\* refund has succeeded.
C39_DonorTotalsBelowVaultTotal ==
    variant = "anchor" =>
        /\ donors_total <= vault_state.total_donated
        /\ vault_state.total_donated = donors_total + refunded_total
        /\ (donors_total = vault_state.total_donated) <=> (refunded_total = 0)

\* two donors have donated and one of them was refunded a part
C39_Witness ==
    /\ variant = "anchor"
    /\ \A d \in Keys : donor_info[d].total_donated > 0
    /\ refunded_total > 0
    /\ donors_total < vault_state.total_donated

\* the lamports donated so far, by whomever
donated_total == SumOver(moved.donated, Keys)

\* C40 (programs/donation): the vault's balance is its balance at
\* initialization plus all accepted donations minus all withdrawals to the
\* admin minus all refunds; what leaves the vault in a call goes to the
\* admin of that moment (withdrawals) or to the refunded donor (refunds),
\* in full and to nobody else; and no call by somebody who is not the admin
\* lowers the vault's balance.
C40_FundsConserved ==
    variant = "anchor" =>
        /\ lamports[VAULT] =
              InitialLamports[VAULT] + donated_total - moved.withdrawn - refunded_total
        /\ lamports[VAULT] < before.lamports[VAULT] =>
              /\ last.caller = before.vault_state.admin
              /\ Moved(before.lamports[VAULT] - lamports[VAULT],
                       IF last.op = "refund_donation" THEN last.other ELSE last.caller)
        /\ (before.vault_state_init /\ last.caller # before.vault_state.admin) =>
              lamports[VAULT] >= before.lamports[VAULT]

====
